---- MODULE Spec2Model ----
(***************************************************************************)
(* Model of the TASE pinned-message bot.                                   *)
(*                                                                         *)
(* Part 1: the quote-acquisition pipeline of src/src/indices.py: the       *)
(* in-memory cache, the batched spark request, the per-symbol requests     *)
(* over the primary symbol and its alternates, and the scrape fallback.    *)
(*                                                                         *)
(* Part 2: the notifier: run_scheduled and _run_session of                 *)
(* src/src/run_bot.py, main of src/src/main.py and build_message of        *)
(* src/src/formatter.py, composed with the pipeline of part 1.             *)
(*                                                                         *)
(* Three functions are also followed on their own: build_message over      *)
(* lists of quotes and day_infos (SpecFmt), get_trading_day_info of        *)
(* src/src/tase_calendar.py over the dates of four years (SpecCal), and    *)
(* the retry loops of _try_get_last_price and _try_get_prev_close          *)
(* (SpecTry).                                                              *)
(***************************************************************************)
EXTENDS Integers, Sequences, FiniteSets, TLC

\* ------------------------------------------------------------------------
\* Input sets
\* ------------------------------------------------------------------------
\* seconds by which the wall clock may advance between two steps
TimeSteps == {299, 300}

\* Prices, previous closes and percentages are Python floats; they are kept
\* as exact fractions n/d in lowest terms with d > 0.  The fraction 0/0
\* stands for the ZeroDivisionError of a division by zero and is passed on
\* by every operation.
RECURSIVE GCD(_, _)
GCD(a, b) == IF b = 0 THEN a ELSE GCD(b, a % b)
Abs(x) == IF x < 0 THEN -x ELSE x
ZeroDivisionError == [n |-> 0, d |-> 0]
Rat(n, d) ==
    IF d = 0 THEN ZeroDivisionError
    ELSE LET g == GCD(Abs(n), Abs(d))
             s == IF d < 0 THEN -1 ELSE 1
         IN  [n |-> (s * n) \div g, d |-> (s * d) \div g]
R(i) == Rat(i, 1)
RAdd(a, b) == Rat(a.n * b.d + b.n * a.d, a.d * b.d)
RSub(a, b) == Rat(a.n * b.d - b.n * a.d, a.d * b.d)
RMul(a, b) == Rat(a.n * b.n, a.d * b.d)
RDiv(a, b) == IF a.d = 0 THEN ZeroDivisionError ELSE Rat(a.n * b.d, a.d * b.n)
RIsZero(a) == a.n = 0 /\ a.d # 0
RLess(a, b) == a.n * b.d < b.n * a.d

\* values a data source may report
Prices == {R(100), R(102)}
PrevCloses == {R(100)}
\* prices and percent changes the scraped page may show
ScrapePrices == {R(0), R(100)}
ScrapePcts == {R(0), R(2)}
\* 0 stands for "no timestamp" (None), 1 for a present timestamp
PriceDates == {0, 1}

\* input mappings (ordered name -> symbol pairs, names distinct)
MapTase == << <<"TA-35", "TA35.TA">>, <<"TA-125", "^TA125.TA">> >>
MapSep == << <<"A_B", "C">>, <<"A", "B_C">> >>
MapEmpty == << >>
Mappings == {MapTase, MapSep, MapEmpty}

\* ------------------------------------------------------------------------
\* Program constants and tables (src/src/indices.py)
\* ------------------------------------------------------------------------
CACHE_TTL == 300

ALT_SYMBOLS ==
    ("TA35.TA" :> <<"^TA35.TA", "TA35">>) @@
    ("TA125.TA" :> <<"^TA125.TA", "TA125">>) @@
    ("TA90.TA" :> <<"^TA90.TA", "TA90">>) @@
    ("TA-BANKS.TA" :> <<"^TA-BANKS.TA", "BANKS.TA", "^BANKS.TA">>)

\* ALT_SYMBOLS.get(symbol, [])
AltsOf(symbol) ==
    IF symbol \in DOMAIN ALT_SYMBOLS THEN ALT_SYMBOLS[symbol] ELSE << >>

\* symbols_to_try / candidate_symbols: primary first, then alternates
symbols_to_try(symbol) == <<symbol>> \o AltsOf(symbol)

SeqRange(s) == {s[i] : i \in 1..Len(s)}

\* cache_key = f"{name}_{symbol}"
cache_key(name, symbol) == name \o "_" \o symbol

symbols_to_prefetch_Primaries(m) == {m[i][2] : i \in 1..Len(m)}

\* symbols_to_prefetch of fetch_all, as filtered by _fetch_spark_batch
symbols_to_prefetch(m) ==
    UNION {SeqRange(symbols_to_try(m[i][2])) : i \in 1..Len(m)}

IndexQuote(name, symbol, price, prev_close, price_date) ==
    [name |-> name, symbol |-> symbol, price |-> price,
     prev_close |-> prev_close, price_date |-> price_date]

\* ------------------------------------------------------------------------
\* State
\* ------------------------------------------------------------------------
\* The wall clock is kept relative: instead of time.time() and the timestamp
\* stored with an entry, the state holds each entry's age, time.time() minus
\* its timestamp.  The code reads an age only to compare it with CACHE_TTL,
\* and ages only grow, so an age is kept up to CACHE_TTL exactly.
VARIABLES
    cache,        \* _cache: key -> [quote, age]
    fpc,          \* position inside fetch_all / fetch_index
    imap,         \* indices_map, the configured mapping
    spark_data,   \* result of _fetch_spark_batch: symbol -> data point
    out,          \* result list of fetch_all
    idx,          \* position in items (1-based)
    ci,           \* position in symbols_to_try (1-based)
    price,        \* local `price` / `price_date` of fetch_index, with the
                  \* candidate whose request supplied them (history)
    res,          \* history: per item of this call, the layer that resolved it
    spark_reqs,   \* history: batched HTTP requests issued by this call
    spark_symbols, \* history: the symbols of the batched request of this call
    attempts,     \* history: candidates the loop of fetch_index entered, this item
    asked,        \* history: candidates given a per-symbol request, this item
    scraped,      \* history: names handed to the scrape fallback by this call
    row,          \* history: the row the scrape last yielded in this call
    returned      \* history: key -> quote fetch_index last returned for the key,
                  \* forgotten when the entry under the key is deleted

fvars == <<cache, fpc, imap, spark_data, out, idx, ci, price, res, spark_reqs, spark_symbols,
           attempts, asked, scraped, row, returned>>

\* The notifier's clock counts slots of one update interval (300 s).
VARIABLES
    clk,          \* datetime.now(TZ), in slots
    cfg_ok,       \* TELEGRAM_BOT_TOKEN and TELEGRAM_CHAT are both set
    file,         \* message_id.txt: <<>> or <<[id, day]>>
    nmsgs,        \* messages the channel has accepted so far (ids 1..nmsgs)
    pinned,       \* id of the message pinned last, 0 for none
    gone,         \* ids of messages deleted from the channel since the last send
    spc,          \* position of run_scheduled
    off_session_message_sent,
    loop_now,     \* `now` of run_scheduled's current iteration
    stop_at,      \* close time handed to _run_session
    next_start,   \* target of _sleep_until
    mpc,          \* position of the running main(), "none" when there is none
    margs,        \* arguments of the running main(): run_once, market_open,
                  \* day_info (<<>> for None)
    message_id,   \* main's message_id, 0 for None
    last_text,    \* main's last_text, <<>> for None, else <<text>>
    text,         \* main's text of the current cycle
    attempt,      \* main's send attempt (0-based)
    delay,        \* main's delay before the next send attempt, in seconds
    mwake,        \* clock value at which main's interval sleep ends
    outcome,      \* history: the last Telegram call of the cycle and its result
    lost,         \* history: id this run of main found missing on an edit, 0 for none
    deliveries    \* history: sends and edits the channel accepted since the
                  \* current off-session period began

svars == <<clk, cfg_ok, file, nmsgs, pinned, gone, lost, spc, off_session_message_sent,
           loop_now, stop_at, next_start, mpc, margs, message_id, last_text,
           text, attempt, mwake, delay, outcome, deliveries>>

\* The calendar lookup and the per-symbol requests are followed on their own.
VARIABLES
    moment_date,       \* moment.date() of the call of get_trading_day_info
    trading_day_info,  \* its result, << >> before the call
    start_after,       \* the argument `after` of a call of _next_session_start
                       \* over the calendar's dates: its date and time of day
    session_start,     \* what that call returned, << >> before the call
    tpc,          \* position inside _try_get_last_price / _try_get_prev_close
    tfn,          \* which of the two functions is running
    tsymbol,      \* its symbol argument
    tsetting,     \* index of the period/interval setting being downloaded
    tattempt,     \* `attempt` of the running retry loop
    tlog,         \* history: the requests and backoff sleeps of this call
    tresult       \* what the call returned: "none" for None, "value"

cvars == <<moment_date, trading_day_info, start_after, session_start>>
tvars == <<tpc, tfn, tsymbol, tsetting, tattempt, tlog, tresult>>
pvars == <<cvars, tvars>>

vars == <<fvars, svars, pvars>>

\* datetime.date(year, month, day)
date(year, month, day) == [year |-> year, month |-> month, day |-> day]

\* no calendar lookup and no per-symbol request under way
CalOff ==
    /\ moment_date = date(2025, 1, 1)
    /\ trading_day_info = << >>
    /\ start_after = [date |-> date(2025, 1, 1), time |-> [h |-> 0, m |-> 0]]
    /\ session_start = << >>
TryOff ==
    /\ tpc = "idle"
    /\ tfn = "none"
    /\ tsymbol = ""
    /\ tsetting = 0
    /\ tattempt = 0
    /\ tlog = << >>
    /\ tresult = "none"

NoPrice == [p |-> R(0), d |-> 0, s |-> ""]
EmptyFn == [x \in {} |-> 0]

NoText == [header |-> "none", reason |-> "", date |-> 0, stamp |-> 0,
           note |-> << >>, quote_lines |-> << >>, disclaimer |-> FALSE]
NoArgs == [run_once |-> FALSE, market_open |-> FALSE, day_info |-> << >>]
NoOutcome == [op |-> "none", result |-> "none"]

\* the notifier is not running
SchedOff ==
    /\ clk = 0
    /\ cfg_ok = TRUE
    /\ file = << >>
    /\ nmsgs = 0
    /\ pinned = 0
    /\ gone = {}
    /\ lost = 0
    /\ spc = "off"
    /\ off_session_message_sent = FALSE
    /\ loop_now = 0
    /\ stop_at = 0
    /\ next_start = 0
    /\ mpc = "none"
    /\ margs = NoArgs
    /\ message_id = 0
    /\ last_text = << >>
    /\ text = NoText
    /\ attempt = 0 /\ delay = 0
    /\ mwake = 0
    /\ outcome = NoOutcome
    /\ deliveries = 0

FetchInit ==
    /\ cache = EmptyFn
    /\ fpc = "idle"
    /\ spark_data = EmptyFn
    /\ out = << >>
    /\ idx = 1
    /\ ci = 1
    /\ price = NoPrice
    /\ res = << >>
    /\ spark_reqs = 0
    /\ spark_symbols = {}
    /\ attempts = << >>
    /\ asked = << >>
    /\ scraped = << >>
    /\ row = << >>
    /\ returned = EmptyFn

\* the pipeline alone: fetch_all called on one of the mappings
Init ==
    /\ imap \in Mappings
    /\ FetchInit
    /\ SchedOff
    /\ CalOff
    /\ TryOff

\* ------------------------------------------------------------------------
\* The wall clock
\* ------------------------------------------------------------------------
Min(a, b) == IF a <= b THEN a ELSE b

\* the cache d seconds later
Aged(c, d) ==
    [k \in DOMAIN c |-> [quote |-> c[k].quote, age |-> Min(c[k].age + d, CACHE_TTL)]]

\* time passes between two calls, before an item's cache lookup, and while an
\* item's candidates are being fetched
Tick ==
    /\ fpc \in {"idle", "done", "raised", "item", "cand"}
    /\ \E d \in TimeSteps : cache' = Aged(cache, d)
    /\ UNCHANGED <<fpc, imap, spark_data, out, idx, ci, price, res, spark_reqs, spark_symbols,
                   attempts, asked, scraped, row, returned>>
    /\ UNCHANGED svars

\* ------------------------------------------------------------------------
\* fetch_all
\* ------------------------------------------------------------------------
CurName == imap[idx][1]
CurSymbol == imap[idx][2]

\* mutant: the key is built from the symbol being attempted
CurKey_Attempt == cache_key(CurName, symbols_to_try(CurSymbol)[ci])

CurKey == cache_key(CurName, CurSymbol)
CurCands == symbols_to_try(CurSymbol)

\* spark_available = any(spark_data.get(sym) for sym in candidate_symbols)
spark_available == \E s \in SeqRange(CurCands) : s \in DOMAIN spark_data

\* fetch_all entry: out = [], the candidate set is handed to the batch fetch
FetchAllBegin ==
    /\ fpc \in {"idle", "done", "raised"}
    /\ out' = << >>
    /\ idx' = 1
    /\ ci' = 1
    /\ price' = NoPrice
    /\ res' = << >>
    /\ spark_reqs' = 0
    /\ spark_symbols' = {}
    /\ attempts' = << >>
    /\ asked' = << >>
    /\ scraped' = << >>
    /\ row' = << >>
    /\ spark_data' = EmptyFn
    /\ fpc' = "spark"
    /\ UNCHANGED <<cache, imap, returned>>

\* fetch_all called on its own
FetchAllStart == FetchAllBegin /\ UNCHANGED svars

\* position after _fetch_spark_batch returned
AfterSpark == IF Len(imap) = 0 THEN "done" ELSE "item"

\* _fetch_spark_batch with no tickers: returns {} without a request
SparkNoTickers ==
    /\ fpc = "spark"
    /\ symbols_to_prefetch(imap) = {}
    /\ spark_data' = EmptyFn
    /\ fpc' = AfterSpark
    /\ UNCHANGED <<cache, imap, out, idx, ci, price, res, spark_reqs, spark_symbols,
                   attempts, asked, scraped, row, returned>>
    /\ UNCHANGED svars

SparkFailed_Abort ==
    /\ fpc = "spark"
    /\ symbols_to_prefetch(imap) # {}
    /\ spark_reqs' = spark_reqs + 1
    /\ spark_symbols' = symbols_to_prefetch(imap)
    /\ spark_data' = EmptyFn
    /\ fpc' = "done"
    /\ UNCHANGED <<cache, imap, out, idx, ci, price, res,
                   attempts, asked, scraped, row, returned>>
    /\ UNCHANGED svars

\* _fetch_spark_batch: requests.get fails, raise_for_status raises, or
\* response.json() raises ValueError: logged, {} returned
SparkFailed ==
    /\ fpc = "spark"
    /\ symbols_to_prefetch(imap) # {}
    /\ spark_reqs' = spark_reqs + 1
    /\ spark_symbols' = symbols_to_prefetch(imap)
    /\ spark_data' = EmptyFn
    /\ fpc' = AfterSpark
    /\ UNCHANGED <<cache, imap, out, idx, ci, price, res,
                   attempts, asked, scraped, row, returned>>
    /\ UNCHANGED svars

\* _fetch_spark_batch: decoded payload that is not the expected nesting of
\* dicts and lists, or whose meta fields are not numeric: payload.get(...),
\* float(price), int(market_time) raise outside of any try block
SparkMalformed ==
    /\ fpc = "spark"
    /\ symbols_to_prefetch(imap) # {}
    /\ spark_reqs' = spark_reqs + 1
    /\ spark_symbols' = symbols_to_prefetch(imap)
    /\ fpc' = "raised"
    /\ UNCHANGED <<cache, imap, spark_data, out, idx, ci, price, res,
                   attempts, asked, scraped, row, returned>>
    /\ UNCHANGED svars

\* _fetch_spark_batch: well-formed payload; entries lacking a field are skipped
SparkOk ==
    /\ fpc = "spark"
    /\ symbols_to_prefetch(imap) # {}
    /\ spark_reqs' = spark_reqs + 1
    /\ spark_symbols' = symbols_to_prefetch(imap)
    /\ \E S \in SUBSET symbols_to_prefetch(imap), p \in Prices, c \in PrevCloses :
          spark_data' = [s \in S |-> [price |-> p, prev_close |-> c, timestamp |-> 1]]
    /\ fpc' = AfterSpark
    /\ UNCHANGED <<cache, imap, out, idx, ci, price, res,
                   attempts, asked, scraped, row, returned>>
    /\ UNCHANGED svars

\* ------------------------------------------------------------------------
\* The cache (_get_cached_data, _cache_data)
\* ------------------------------------------------------------------------
\* mutant: an entry of age exactly CACHE_TTL still counts as valid
CacheFresh_Inclusive(key) ==
    /\ key \in DOMAIN cache
    /\ cache[key].age <= CACHE_TTL

\* _get_cached_data returns the quote: the entry exists and is younger than TTL
CacheFresh(key) ==
    /\ key \in DOMAIN cache
    /\ cache[key].age < CACHE_TTL

\* _cache after _get_cached_data(key): an expired entry is deleted
CacheAfterGet(key) ==
    IF key \in DOMAIN cache /\ ~CacheFresh(key)
    THEN [k \in DOMAIN cache \ {key} |-> cache[k]]
    ELSE cache

\* _cache after _cache_data(key, quote) applied to cache c
CacheData(c, key, quote) ==
    [k \in DOMAIN c \cup {key} |->
        IF k = key THEN [quote |-> quote, age |-> 0] ELSE c[k]]

\* ------------------------------------------------------------------------
\* fetch_index, one call per item of the mapping
\* ------------------------------------------------------------------------
\* fetch_all after fetch_index returned qs (<<>> for None, <<q>> for a quote):
\* append, then sleep 1 s before the next item unless spark had data for it
Returned(qs, layer) ==
    /\ out' = out \o qs
    /\ res' = Append(res, layer)
    /\ returned' = IF qs = << >> THEN returned
                   ELSE [k \in DOMAIN returned \cup {CurKey} |->
                            IF k = CurKey THEN qs[1] ELSE returned[k]]
    /\ ci' = 1
    /\ price' = NoPrice
    /\ IF idx < Len(imap) /\ ~spark_available
       THEN fpc' = "sleep" /\ idx' = idx /\ spark_data' = spark_data
       ELSE IF idx < Len(imap)
       THEN fpc' = "item" /\ idx' = idx + 1 /\ spark_data' = spark_data
       ELSE \* return out: the locals of the call are gone
            fpc' = "done" /\ idx' = 1 /\ spark_data' = EmptyFn

\* time.sleep(1) between two items; the time that elapses is Tick's, which
\* may fire before the next item's cache lookup
Sleep ==
    /\ fpc = "sleep"
    /\ idx' = idx + 1
    /\ fpc' = "item"
    /\ UNCHANGED <<cache, imap, spark_data, out, ci, price, res, spark_reqs, spark_symbols,
                   attempts, asked, scraped, row, returned>>
    /\ UNCHANGED svars

\* mutant: the cached quote is looked up but not returned; the fetch goes on
FetchIndexCached_Refetch ==
    /\ fpc = "item"
    /\ CacheFresh(CurKey)
    /\ attempts' = << >>
    /\ asked' = << >>
    /\ ci' = 1
    /\ price' = NoPrice
    /\ fpc' = "cand"
    /\ UNCHANGED <<cache, imap, spark_data, out, idx, res, spark_reqs, spark_symbols, scraped, row,
                   returned>>
    /\ UNCHANGED svars

\* fetch_index: the cache holds a fresh entry under the key: it is returned
FetchIndexCached ==
    /\ fpc = "item"
    /\ CacheFresh(CurKey)
    /\ attempts' = << >>
    /\ asked' = << >>
    /\ Returned(<<cache[CurKey].quote>>, "cache")
    /\ UNCHANGED <<cache, imap, spark_reqs, spark_symbols, scraped, row>>
    /\ UNCHANGED svars

\* fetch_index: no entry or an expired one (deleted); go on to the candidates
FetchIndexMiss ==
    /\ fpc = "item"
    /\ ~CacheFresh(CurKey)
    /\ cache' = CacheAfterGet(CurKey)
    /\ attempts' = << >>
    /\ asked' = << >>
    /\ ci' = 1
    /\ price' = NoPrice
    /\ fpc' = "cand"
    /\ returned' = [k \in DOMAIN returned \ {CurKey} |-> returned[k]]
    /\ UNCHANGED <<imap, spark_data, out, idx, res, spark_reqs, spark_symbols, scraped, row>>
    /\ UNCHANGED svars

\* mutant: the loop skips the candidate after a failed one
NextCandidate_Skip ==
    /\ price' = NoPrice
    /\ IF ci + 1 < Len(CurCands)
       THEN ci' = ci + 2 /\ fpc' = "cand"
       ELSE ci' = ci /\ fpc' = "scrape"

\* mutant: a failed candidate ends the loop (break instead of continue)
NextCandidate_Break ==
    /\ price' = NoPrice
    /\ ci' = ci
    /\ fpc' = "scrape"

\* mutant: the price of the failed candidate is carried into the next
\* iteration
NextCandidate_KeepPrice ==
    /\ price' = price
    /\ IF ci < Len(CurCands)
       THEN ci' = ci + 1 /\ fpc' = "cand"
       ELSE ci' = ci /\ fpc' = "scrape"

\* the loop over symbols_to_try moves to the next candidate, or falls through
\* to the alternative data source
NextCandidate ==
    /\ price' = NoPrice
    /\ IF ci < Len(CurCands)
       THEN ci' = ci + 1 /\ fpc' = "cand"
       ELSE ci' = ci /\ fpc' = "scrape"

\* candidate found in spark_data: quote built from the data point and cached
CandSpark ==
    /\ fpc = "cand"
    /\ CurCands[ci] \in DOMAIN spark_data
    /\ attempts' = Append(attempts, CurCands[ci])
    /\ LET dp == spark_data[CurCands[ci]]
           q == IndexQuote(CurName, CurCands[ci], dp.price, dp.prev_close, dp.timestamp)
       IN /\ cache' = CacheData(cache, CurKey, q)
          /\ Returned(<<q>>, "spark")
    /\ UNCHANGED <<imap, spark_reqs, spark_symbols, asked, scraped, row>>
    /\ UNCHANGED svars

\* candidate not in spark_data: price is None, _try_get_last_price is called
CandNoSpark ==
    /\ fpc = "cand"
    /\ CurCands[ci] \notin DOMAIN spark_data
    /\ attempts' = Append(attempts, CurCands[ci])
    /\ fpc' = "last_price"
    /\ UNCHANGED <<cache, imap, spark_data, out, idx, ci, price, res, spark_reqs, spark_symbols,
                   asked, scraped, row, returned>>
    /\ UNCHANGED svars

\* a per-symbol request for the current candidate is recorded
Asked == IF asked # << >> /\ asked[Len(asked)] = CurCands[ci]
         THEN asked ELSE Append(asked, CurCands[ci])

\* _try_get_last_price(attempt_symbol) returned None: next candidate
LastPriceNone ==
    /\ fpc = "last_price"
    /\ asked' = Asked
    /\ NextCandidate
    /\ UNCHANGED <<cache, imap, spark_data, out, idx, res, spark_reqs, spark_symbols,
                   attempts, scraped, row, returned>>
    /\ UNCHANGED svars

\* _try_get_last_price(attempt_symbol) returned (price, date or None)
LastPriceOk ==
    /\ fpc = "last_price"
    /\ asked' = Asked
    /\ \E p \in Prices, d \in PriceDates :
         price' = [p |-> p, d |-> d, s |-> CurCands[ci]]
    /\ fpc' = "prev_close"
    /\ UNCHANGED <<cache, imap, spark_data, out, idx, ci, res, spark_reqs, spark_symbols,
                   attempts, scraped, row, returned>>
    /\ UNCHANGED svars

\* _try_get_prev_close(attempt_symbol) returned None: next candidate
PrevCloseNone ==
    /\ fpc = "prev_close"
    /\ asked' = Asked
    /\ NextCandidate
    /\ UNCHANGED <<cache, imap, spark_data, out, idx, res, spark_reqs, spark_symbols,
                   attempts, scraped, row, returned>>
    /\ UNCHANGED svars

\* _try_get_prev_close(attempt_symbol) returned a value: quote built, cached
PrevCloseOk ==
    /\ fpc = "prev_close"
    /\ asked' = Asked
    /\ \E c \in PrevCloses :
         LET q == IndexQuote(CurName, CurCands[ci], price.p, c, price.d)
         IN /\ cache' = CacheData(cache, CurKey, q)
            /\ Returned(<<q>>, "direct")
    /\ UNCHANGED <<imap, spark_reqs, spark_symbols, attempts, scraped, row>>
    /\ UNCHANGED svars

\* get_index_data_from_alternative_source returned None or {} (or raised, or
\* the dict lacked a key: caught by the try block): fetch_index returns None
ScrapeNone ==
    /\ fpc = "scrape"
    /\ scraped' = Append(scraped, CurName)
    /\ row' = << >>
    /\ Returned(<< >>, "none")
    /\ UNCHANGED <<cache, imap, spark_reqs, spark_symbols, attempts, asked>>
    /\ UNCHANGED svars

scrape_prev_close_Forward(px, pct) ==
    RMul(px, RSub(R(1), RDiv(pct, R(100))))

\* scrape_investing_indices: the previous close of a scraped row, computed
\* back from its price and its percent change
scrape_prev_close(px, pct) ==
    IF ~RIsZero(pct)
    THEN RDiv(px, RAdd(R(1), RDiv(pct, R(100))))
    ELSE px

\* the alternative source returned a row for the name: quote for the primary
\* symbol, without price_date, cached.  A row whose change is -100% raises
\* ZeroDivisionError inside the scrape and is skipped there (ScrapeNone).
ScrapeOk ==
    /\ fpc = "scrape"
    /\ scraped' = Append(scraped, CurName)
    /\ \E p \in ScrapePrices, c \in ScrapePcts :
         LET q == IndexQuote(CurName, CurSymbol, p, scrape_prev_close(p, c), 0)
         IN /\ row' = <<[price |-> p, change_pct |-> c]>>
            /\ cache' = CacheData(cache, CurKey, q)
            /\ Returned(<<q>>, "scrape")
    /\ UNCHANGED <<imap, spark_reqs, spark_symbols, attempts, asked>>
    /\ UNCHANGED svars

FetchNext ==
    \/ Tick
    \/ FetchAllStart
    \/ SparkNoTickers
    \/ SparkFailed
    \/ SparkMalformed
    \/ SparkOk
    \/ Sleep
    \/ FetchIndexCached
    \/ FetchIndexMiss
    \/ CandSpark
    \/ CandNoSpark
    \/ LastPriceNone
    \/ LastPriceOk
    \/ PrevCloseNone
    \/ PrevCloseOk
    \/ ScrapeNone
    \/ ScrapeOk

Next == FetchNext /\ UNCHANGED pvars

Spec == Init /\ [][Next]_vars

\* ------------------------------------------------------------------------
\* Part 2: calendar, message text, main() and the scheduler
\* ------------------------------------------------------------------------
UPDATE_INTERVAL_SEC == 300
_SLEEP_GRANULARITY_SEC == 60
SEND_RETRY_DELAYS == <<0, 2, 4>>

\* a duration in whole clock slots; one slot is one update interval
Slots(sec) == sec \div UPDATE_INTERVAL_SEC

\* The calendar the notifier runs against: days of DayLen slots, a session
\* from OpenSlot to CloseSlot on every day outside NonTradingDays.
DayLen == 4
OpenSlot == 1
CloseSlot == 3
NonTradingDays == {2}
MaxClk == 7
StartSlots == {0, 1}
\* the notifier runs with one configured index, or with none
MapOne == << <<"TA-125", "^TA125.TA">> >>
SchedMappings == {MapEmpty, MapOne}

DayOf(moment) == moment \div DayLen

\* tase_calendar.get_trading_hours is imported by run_bot.py but is not part
\* of the sources; it is taken to return the day's open and close times, or
\* nothing on a non-trading day.
get_trading_hours(moment) ==
    IF DayOf(moment) \in NonTradingDays THEN << >> ELSE <<OpenSlot, CloseSlot>>

_session_bounds(moment) ==
    LET hours == get_trading_hours(moment)
    IN  IF hours = << >> THEN << >>
        ELSE <<DayOf(moment) * DayLen + hours[1], DayOf(moment) * DayLen + hours[2]>>

_is_within_session_Closed(moment) ==
    LET bounds == _session_bounds(moment)
    IN  bounds # << >> /\ bounds[1] <= moment /\ moment <= bounds[2]

_is_within_session(moment) ==
    LET bounds == _session_bounds(moment)
    IN  bounds # << >> /\ bounds[1] <= moment /\ moment < bounds[2]

\* -1 stands for the RuntimeError raised when no session starts in 8 days
_next_session_start(after) ==
    LET start(o) == _session_bounds((DayOf(after) + o) * DayLen)
        ok == {o \in 0..7 : start(o) # << >> /\ start(o)[1] > after}
    IN  IF ok = {} THEN -1
        ELSE start(CHOOSE o \in ok : \A o2 \in ok : o <= o2)[1]

change_pct_Unguarded(q) ==
    RMul(RSub(RDiv(q.price, q.prev_close), R(1)), R(100))

\* IndexQuote.change_pct, in percent
change_pct(q) ==
    IF ~RIsZero(q.prev_close)
    THEN RMul(RSub(RDiv(q.price, q.prev_close), R(1)), R(100))
    ELSE R(0)

emoji(q) ==
    IF RLess(R(0), change_pct(q)) THEN "green"
    ELSE IF RLess(change_pct(q), R(0)) THEN "red" ELSE "white"

\* f"{x:.2f}": the sign the number format prints and the hundredths of |x|,
\* rounded to the nearest, a tie going to the even neighbour
Fixed2(x) ==
    LET n == Abs(x.n) * 100
        q == n \div x.d
        r == n % x.d
    IN  [neg |-> x.n < 0,
         cents |-> IF 2 * r > x.d \/ (2 * r = x.d /\ q % 2 = 1)
                   THEN q + 1 ELSE q]

\* _fmt_num(x, 2); the thousands separators follow from the digits
_fmt_num(x) == Fixed2(x)

_fmt_pct_Strict(x) ==
    [sign |-> IF RLess(R(0), x) THEN "+" ELSE "", num |-> Fixed2(x)]

\* _fmt_pct(x, 2): "+" in front of the formatted number when x >= 0
_fmt_pct(x) ==
    [sign |-> IF ~RLess(x, R(0)) THEN "+" ELSE "", num |-> Fixed2(x)]

\* one quote line, before the MarkdownV2 escaping of its parts
quote_line(q) ==
    [emoji |-> emoji(q), name |-> q.name, pct |-> _fmt_pct(change_pct(q)),
     price |-> _fmt_num(q.price)]

\* datetime.time(h, m), and None where a time is expected
time(h, m) == [h |-> h, m |-> m]
NoTime == [h |-> -1, m |-> -1]

\* tase_calendar.TradingDayInfo; a reason of None is the empty string
TradingDayInfo(is_trading, is_short, reason, start_time, stop_time) ==
    [is_trading |-> is_trading, is_short |-> is_short, reason |-> reason,
     start_time |-> start_time, stop_time |-> stop_time]

\* ---- tase_calendar.py ----
\* The reasons are Hebrew strings in the source; they are written here in
\* Latin letters.
_HOLIDAYS_2025 ==
    (date(2025, 4, 13) :> "Pesach") @@
    (date(2025, 4, 30) :> "Yom HaZikaron") @@
    (date(2025, 5, 1) :> "Yom HaAtzmaut") @@
    (date(2025, 6, 2) :> "Shavuot") @@
    (date(2025, 8, 3) :> "Tisha BeAv") @@
    (date(2025, 9, 22) :> "Erev Rosh Hashana") @@
    (date(2025, 9, 23) :> "Rosh Hashana") @@
    (date(2025, 9, 24) :> "Rosh Hashana") @@
    (date(2025, 10, 1) :> "Erev Yom Kippur") @@
    (date(2025, 10, 2) :> "Yom Kippur") @@
    (date(2025, 10, 6) :> "Erev Sukkot") @@
    (date(2025, 10, 7) :> "Sukkot") @@
    (date(2025, 10, 13) :> "Erev Simchat Torah") @@
    (date(2025, 10, 14) :> "Simchat Torah")

_SHORT_DAYS_2025 ==
    (date(2025, 4, 14) :> "Chol HaMoed Pesach") @@
    (date(2025, 4, 15) :> "Chol HaMoed Pesach") @@
    (date(2025, 4, 16) :> "Chol HaMoed Pesach") @@
    (date(2025, 4, 17) :> "Chol HaMoed Pesach") @@
    (date(2025, 10, 8) :> "Chol HaMoed Sukkot") @@
    (date(2025, 10, 9) :> "Chol HaMoed Sukkot") @@
    (date(2025, 10, 12) :> "Chol HaMoed Sukkot")

_HOLIDAYS_2026 ==
    (date(2026, 4, 2) :> "Pesach") @@
    (date(2026, 4, 8) :> "Shvii shel Pesach") @@
    (date(2026, 4, 21) :> "Yom HaZikaron") @@
    (date(2026, 4, 22) :> "Yom HaAtzmaut") @@
    (date(2026, 5, 22) :> "Shavuot") @@
    (date(2026, 7, 23) :> "Tisha BeAv") @@
    (date(2026, 9, 11) :> "Erev Rosh Hashana") @@
    (date(2026, 9, 21) :> "Yom Kippur") @@
    (date(2026, 9, 25) :> "Erev Sukkot") @@
    (date(2026, 10, 1) :> "Erev Simchat Torah") @@
    (date(2026, 10, 2) :> "Simchat Torah")

_SHORT_DAYS_2026 ==
    (date(2026, 4, 6) :> "Chol HaMoed Pesach") @@
    (date(2026, 4, 7) :> "Chol HaMoed Pesach") @@
    (date(2026, 9, 28) :> "Chol HaMoed Sukkot") @@
    (date(2026, 9, 29) :> "Chol HaMoed Sukkot") @@
    (date(2026, 9, 30) :> "Chol HaMoed Sukkot")

\* mutant: a weekend is reported without a reason
WEEKEND_REASON_None == ""

WEEKEND_REASON == "Sof Shavua"

\* datetime.date: leap years, month lengths, the proleptic ordinal and the
\* weekday (Monday is 0, Sunday is 6)
is_leap(y) == y % 4 = 0 /\ (y % 100 # 0 \/ y % 400 = 0)
days_in_month(y, m) ==
    IF m = 2 THEN (IF is_leap(y) THEN 29 ELSE 28)
    ELSE IF m \in {4, 6, 9, 11} THEN 30 ELSE 31
RECURSIVE days_before_month(_, _)
days_before_month(y, m) ==
    IF m = 1 THEN 0 ELSE days_before_month(y, m - 1) + days_in_month(y, m - 1)
days_before_year(y) ==
    (y - 1) * 365 + (y - 1) \div 4 - (y - 1) \div 100 + (y - 1) \div 400
toordinal(d) == days_before_year(d.year) + days_before_month(d.year, d.month) + d.day
weekday(d) == (toordinal(d) + 6) % 7

holidays_of_Swapped(y) == IF y = 2025 THEN _HOLIDAYS_2026 ELSE _HOLIDAYS_2025

\* holidays = _HOLIDAYS_2025 if year == 2025 else _HOLIDAYS_2026
holidays_of(y) == IF y = 2025 THEN _HOLIDAYS_2025 ELSE _HOLIDAYS_2026

short_days_of_Swapped(y) == IF y = 2025 THEN _SHORT_DAYS_2026 ELSE _SHORT_DAYS_2025

\* short_days = _SHORT_DAYS_2025 if year == 2025 else _SHORT_DAYS_2026
short_days_of(y) == IF y = 2025 THEN _SHORT_DAYS_2025 ELSE _SHORT_DAYS_2026

sunday_week_YearOnly(d) == d.year < 2026

\* year < 2026 or (year == 2026 and d.month == 1 and d.day < 5): the week
\* from Sunday to Thursday is in force
sunday_week(d) ==
    d.year < 2026 \/ (d.year = 2026 /\ d.month = 1 /\ d.day < 5)

is_trading_weekday(d) ==
    IF sunday_week(d) THEN weekday(d) \in {6, 0, 1, 2, 3}
    ELSE weekday(d) \in {0, 1, 2, 3, 4}

regular_stop_time_Flat(d) == time(17, 45)

\* the stop time of a regular trading day
regular_stop_time(d) ==
    IF sunday_week(d)
    THEN (IF weekday(d) = 6 THEN time(15, 50) ELSE time(17, 45))
    ELSE (IF weekday(d) = 4 THEN time(13, 50) ELSE time(17, 45))

\* get_trading_day_info(moment), d = moment.date()
get_trading_day_info(d) ==
    IF d \in DOMAIN holidays_of(d.year)
    THEN TradingDayInfo(FALSE, FALSE, holidays_of(d.year)[d], NoTime, NoTime)
    ELSE IF ~is_trading_weekday(d)
    THEN TradingDayInfo(FALSE, FALSE, WEEKEND_REASON, NoTime, NoTime)
    ELSE IF d \in DOMAIN short_days_of(d.year)
    THEN TradingDayInfo(TRUE, TRUE, short_days_of(d.year)[d], time(9, 25),
                        time(14, 45))
    ELSE TradingDayInfo(TRUE, FALSE, "", time(9, 25), regular_stop_time(d))

FALLBACK_TEXT ==
    [header |-> "fallback", reason |-> "", date |-> 0, stamp |-> 0,
     note |-> << >>, quote_lines |-> << >>, disclaimer |-> FALSE]

\* strftime on a stop_time of None
AttributeError ==
    [header |-> "AttributeError", reason |-> "", date |-> 0, stamp |-> 0,
     note |-> << >>, quote_lines |-> << >>, disclaimer |-> FALSE]

\* day_info = day_info or TradingDayInfo(is_trading=not market_closed);
\* the argument is << >> for None, <<info>> otherwise
day_info_or_default(day_info, market_closed) ==
    IF day_info # << >> THEN day_info[1]
    ELSE TradingDayInfo(~market_closed, FALSE, "", NoTime, NoTime)

\* the note for shortened trading days: stop_time minus 20 minutes and the
\* reason, appended to the header list before the header is chosen
shortened_note(info) ==
    IF info.is_trading /\ info.is_short
    THEN LET total_minutes == info.stop_time.h * 60 + info.stop_time.m - 20
         IN  <<[until |-> time(total_minutes \div 60, total_minutes % 60),
                reason |-> info.reason]>>
    ELSE << >>

header_of_Undated(quotes, market_closed, info) ==
    IF ~info.is_trading /\ info.reason # "" THEN "no_trading"
    ELSE IF market_closed THEN "closed_undated" ELSE "live"

\* the branch of the header: non-trading day, market closed (dated by the
\* first quote when it has a price_date), live
header_of(quotes, market_closed, info) ==
    IF ~info.is_trading /\ info.reason # "" THEN "no_trading"
    ELSE IF market_closed
         THEN IF quotes # << >> /\ quotes[1].price_date # 0
              THEN "closed_dated" ELSE "closed_undated"
         ELSE "live"

quote_lines_of_Always(quotes, info) ==
    [i \in 1..Len(quotes) |-> quote_line(quotes[i])]

\* the quote lines: none on a non-trading day
quote_lines_of(quotes, info) ==
    IF info.is_trading
    THEN [i \in 1..Len(quotes) |-> quote_line(quotes[i])]
    ELSE << >>

\* build_message(quotes, tz, market_closed, day_info) at clock value now.
\* The text is kept as its parts: the shortened-day note, the header chosen,
\* the reason shown by the non-trading header, the date shown by the dated
\* market-closed header, the HH:MM stamp of the live header, the quote
\* lines and the delay disclaimer; the promotional footer is the same in
\* every text.
build_message(quotes, market_closed, day_info, now) ==
    LET info == day_info_or_default(day_info, market_closed)
        header == header_of(quotes, market_closed, info)
    IN  IF info.is_trading /\ info.is_short /\ info.stop_time = NoTime
        THEN AttributeError
        ELSE [header |-> header,
              reason |-> IF header = "no_trading" THEN info.reason ELSE "",
              date |-> IF header = "closed_dated" THEN quotes[1].price_date ELSE 0,
              stamp |-> IF header = "live" THEN now ELSE 0,
              note |-> shortened_note(info),
              quote_lines |-> quote_lines_of(quotes, info),
              disclaimer |-> info.is_trading]

_read_message_id_AnyDate ==
    IF file # << >> THEN file[1].id ELSE 0

_read_message_id ==
    IF file # << >> /\ file[1].day = DayOf(clk) THEN file[1].id ELSE 0

_write_message_id(id) == <<[id |-> id, day |-> DayOf(clk)]>>

\* ---- main(run_once, market_open) ----
svarsMain == <<mpc, message_id, last_text, text, attempt, mwake, delay, outcome, lost>>
svarsEnv == <<clk, cfg_ok>>
svarsChan == <<file, nmsgs, pinned, gone, deliveries>>
svarsSched == <<spc, off_session_message_sent, loop_now, stop_at, next_start, margs>>

\* the places where main() awaits, i.e. where a cancellation can land
CancelPoints == {"start", "get_me", "send", "send_wait", "pin", "edit", "interval_sleep"}

\* the end of one cycle: return when run_once, else sleep the interval.
\* The text of the cycle is not read again and is dropped with it.
EndOfCycle ==
    IF margs.run_once
    THEN mpc' = "returned" /\ mwake' = mwake
    ELSE mpc' = "interval_sleep" /\ mwake' = clk + Slots(UPDATE_INTERVAL_SEC)

\* a delivery counts towards the final update when main runs off-session
Delivered == deliveries' = IF margs.market_open THEN deliveries ELSE deliveries + 1

MainStart ==
    /\ mpc = "start"
    /\ mpc' = IF cfg_ok THEN "get_me" ELSE "returned"
    /\ UNCHANGED <<message_id, last_text, text, attempt, mwake, delay>>
    /\ UNCHANGED <<svarsEnv, svarsChan, svarsSched, fvars>>
    /\ UNCHANGED outcome
    /\ UNCHANGED lost

\* get_me succeeded or timed out: read the stored id and enter the loop
MainGetMeOk ==
    /\ mpc = "get_me"
    /\ \E r \in {"ok", "timed_out"} :
        /\ outcome' = [op |-> "get_me", result |-> r]
        /\ message_id' = _read_message_id
        /\ last_text' = << >>
        /\ mpc' = "fetch"
    /\ UNCHANGED <<text, attempt, mwake, delay>>
    /\ UNCHANGED <<svarsEnv, svarsChan, svarsSched, fvars>>
    /\ UNCHANGED lost

MainGetMeInvalidToken ==
    /\ mpc = "get_me"
    /\ mpc' = "sysexit"
    /\ UNCHANGED <<message_id, last_text, text, attempt, mwake, delay>>
    /\ UNCHANGED <<svarsEnv, svarsChan, svarsSched, fvars>>
    /\ outcome' = [op |-> "get_me", result |-> "invalid_token"]
    /\ UNCHANGED lost

\* any other error of get_me leaves main
MainGetMeError ==
    /\ mpc = "get_me"
    /\ mpc' = "raised"
    /\ UNCHANGED <<message_id, last_text, text, attempt, mwake, delay>>
    /\ UNCHANGED <<svarsEnv, svarsChan, svarsSched, fvars>>
    /\ outcome' = [op |-> "get_me", result |-> "error"]
    /\ UNCHANGED lost

\* quotes = fetch_all(indices_map)
MainFetch ==
    /\ mpc = "fetch"
    /\ FetchAllBegin
    /\ mpc' = "fetching"
    /\ UNCHANGED <<message_id, last_text, text, attempt, mwake, delay>>
    /\ UNCHANGED <<svarsEnv, svarsChan, svarsSched>>
    /\ outcome' = NoOutcome
    /\ UNCHANGED lost

\* fetch_all raised: the exception leaves main
MainFetchRaised ==
    /\ mpc = "fetching"
    /\ fpc = "raised"
    /\ mpc' = "raised"
    /\ fpc' = "idle"
    /\ spark_reqs' = 0
    /\ spark_symbols' = {}
    /\ UNCHANGED <<cache, imap, spark_data, out, idx, ci, price, res, attempts,
                   asked, scraped, row, returned>>
    /\ UNCHANGED <<message_id, last_text, text, attempt, mwake, delay>>
    /\ UNCHANGED <<svarsEnv, svarsChan, svarsSched>>
    /\ UNCHANGED outcome
    /\ UNCHANGED lost

\* fetch_all has returned: its locals are gone, the cache stays
FetchAllReturn ==
    /\ fpc' = "idle"
    /\ out' = << >>
    /\ res' = << >>
    /\ spark_reqs' = 0
    /\ spark_symbols' = {}
    /\ attempts' = << >>
    /\ asked' = << >>
    /\ scraped' = << >>
    /\ row' = << >>
    /\ UNCHANGED <<cache, imap, spark_data, idx, ci, price, returned>>

\* mutant: a tracked message is edited in every cycle
MainBuild_AlwaysEdit ==
    /\ mpc = "fetching"
    /\ fpc = "done"
    /\ FetchAllReturn
    /\ text' = IF out = << >> THEN FALLBACK_TEXT
               ELSE build_message(out, ~margs.market_open, margs.day_info, clk)
    /\ IF message_id = 0
       THEN mpc' = "send" /\ attempt' = 0 /\ mwake' = mwake
       ELSE mpc' = "edit" /\ attempt' = attempt /\ mwake' = mwake
    /\ UNCHANGED <<message_id, last_text, delay>>
    /\ UNCHANGED <<svarsEnv, svarsChan, svarsSched>>
    /\ UNCHANGED outcome
    /\ UNCHANGED lost

\* the text of the cycle and the choice between send, edit and skip
MainBuild ==
    /\ mpc = "fetching"
    /\ fpc = "done"
    /\ FetchAllReturn
    /\ text' = IF out = << >> THEN FALLBACK_TEXT
               ELSE build_message(out, ~margs.market_open, margs.day_info, clk)
    /\ IF message_id = 0
       THEN mpc' = "send" /\ attempt' = 0 /\ mwake' = mwake
       ELSE /\ attempt' = attempt
            /\ IF <<text'>> = last_text
               THEN EndOfCycle
               ELSE mpc' = "edit" /\ mwake' = mwake
    /\ UNCHANGED <<message_id, last_text, delay>>
    /\ UNCHANGED <<svarsEnv, svarsChan, svarsSched>>
    /\ UNCHANGED outcome
    /\ UNCHANGED lost

MainSendOk ==
    /\ mpc = "send"
    /\ nmsgs' = nmsgs + 1
    /\ message_id' = nmsgs + 1
    /\ file' = _write_message_id(nmsgs + 1)
    /\ last_text' = <<text>>
    /\ Delivered
    /\ mpc' = "pin"
    /\ attempt' = 0 /\ delay' = 0
    /\ UNCHANGED <<text, mwake, pinned>>
    /\ UNCHANGED <<svarsEnv, svarsSched, fvars>>
    /\ outcome' = [op |-> "send", result |-> "ok"]
    /\ gone' = {}
    /\ lost' = 0

\* mutant: the delay is taken at the index of the attempt that failed
delay_of_SameIndex(n) == SEND_RETRY_DELAYS[n + 1]

\* delay = SEND_RETRY_DELAYS[attempt + 1], the list being indexed from 0
delay_of(n) == SEND_RETRY_DELAYS[n + 2]

\* TimedOut: another attempt after the delay, or give up and return
MainSendTimedOut ==
    /\ mpc = "send"
    /\ mpc' = IF attempt < Len(SEND_RETRY_DELAYS) - 1 THEN "send_wait" ELSE "returned"
    /\ delay' = IF attempt < Len(SEND_RETRY_DELAYS) - 1 THEN delay_of(attempt) ELSE delay
    /\ UNCHANGED <<message_id, last_text, text, attempt, mwake>>
    /\ UNCHANGED <<svarsEnv, svarsChan, svarsSched, fvars>>
    /\ outcome' = [op |-> "send", result |-> "timed_out"]
    /\ UNCHANGED lost

MainSendRetry ==
    /\ mpc = "send_wait"
    /\ attempt' = attempt + 1
    /\ delay' = 0
    /\ mpc' = "send"
    /\ UNCHANGED <<message_id, last_text, text, mwake>>
    /\ UNCHANGED <<svarsEnv, svarsChan, svarsSched, fvars>>
    /\ UNCHANGED outcome
    /\ UNCHANGED lost

\* an error of send_message other than TimedOut leaves main
MainSendError ==
    /\ mpc = "send"
    /\ mpc' = "raised"
    /\ UNCHANGED <<message_id, last_text, text, attempt, mwake, delay>>
    /\ UNCHANGED <<svarsEnv, svarsChan, svarsSched, fvars>>
    /\ outcome' = [op |-> "send", result |-> "error"]
    /\ UNCHANGED lost

MainPin_Resend ==
    /\ mpc = "pin"
    /\ \E r \in {"ok", "forbidden", "bad_request", "timed_out"} :
        /\ r = "ok" => message_id \notin gone
        /\ outcome' = [op |-> "pin", result |-> r]
        /\ pinned' = IF r = "ok" THEN message_id ELSE pinned
        /\ IF r = "ok"
           THEN EndOfCycle /\ message_id' = message_id /\ text' = NoText
           ELSE mpc' = "send" /\ message_id' = 0 /\ mwake' = mwake /\ text' = text
    /\ UNCHANGED <<last_text, attempt, delay>>
    /\ UNCHANGED <<svarsEnv, file, nmsgs, deliveries, svarsSched, fvars>>
    /\ UNCHANGED <<lost, gone>>

\* pin succeeded, or failed with Forbidden, BadRequest or TimedOut
MainPin ==
    /\ mpc = "pin"
    /\ \E r \in {"ok", "forbidden", "bad_request", "timed_out"} :
        /\ r = "ok" => message_id \notin gone
        /\ outcome' = [op |-> "pin", result |-> r]
        /\ pinned' = IF r = "ok" THEN message_id ELSE pinned
    /\ EndOfCycle
    /\ text' = NoText
    /\ UNCHANGED <<message_id, last_text, attempt, delay>>
    /\ UNCHANGED <<svarsEnv, file, nmsgs, deliveries, svarsSched, fvars>>
    /\ UNCHANGED <<lost, gone>>

MainPinError ==
    /\ mpc = "pin"
    /\ mpc' = "raised"
    /\ UNCHANGED <<message_id, last_text, text, attempt, mwake, delay>>
    /\ UNCHANGED <<svarsEnv, svarsChan, svarsSched, fvars>>
    /\ outcome' = [op |-> "pin", result |-> "error"]
    /\ UNCHANGED lost

MainEditOk ==
    /\ mpc = "edit"
    /\ message_id \notin gone
    /\ last_text' = <<text>>
    /\ Delivered
    /\ EndOfCycle
    /\ text' = NoText
    /\ UNCHANGED <<message_id, attempt, delay>>
    /\ UNCHANGED <<svarsEnv, file, nmsgs, pinned, svarsSched, fvars>>
    /\ outcome' = [op |-> "edit", result |-> "ok"]
    /\ UNCHANGED lost
    /\ UNCHANGED gone

MainEditRejected_Raise ==
    /\ mpc = "edit"
    /\ \E r \in {"not_modified", "bad_request", "timed_out"} :
        /\ r = "not_modified" => message_id \notin gone
        /\ outcome' = [op |-> "edit", result |-> r]
        /\ lost' = IF r = "bad_request" /\ message_id \in gone THEN message_id ELSE lost
    /\ mpc' = "raised"
    /\ UNCHANGED <<message_id, last_text, text, attempt, mwake, delay>>
    /\ UNCHANGED <<svarsEnv, svarsChan, svarsSched, fvars>>

\* BadRequest ("message is not modified", or any other such as "message to
\* edit not found" for a deleted message) or TimedOut: logged
MainEditRejected ==
    /\ mpc = "edit"
    /\ \E r \in {"not_modified", "bad_request", "timed_out"} :
        /\ r = "not_modified" => message_id \notin gone
        /\ outcome' = [op |-> "edit", result |-> r]
        /\ lost' = IF r = "bad_request" /\ message_id \in gone THEN message_id ELSE lost
    /\ EndOfCycle
    /\ text' = NoText
    /\ UNCHANGED <<message_id, last_text, attempt, delay>>
    /\ UNCHANGED <<svarsEnv, svarsChan, svarsSched, fvars>>

MainEditError ==
    /\ mpc = "edit"
    /\ mpc' = "raised"
    /\ UNCHANGED <<message_id, last_text, text, attempt, mwake, delay>>
    /\ UNCHANGED <<svarsEnv, svarsChan, svarsSched, fvars>>
    /\ outcome' = [op |-> "edit", result |-> "error"]
    /\ UNCHANGED lost

\* asyncio.sleep(UPDATE_INTERVAL_SEC) is over
MainWake ==
    /\ mpc = "interval_sleep"
    /\ clk >= mwake
    /\ mpc' = "fetch"
    /\ mwake' = 0
    /\ UNCHANGED <<message_id, last_text, text, attempt, delay>>
    /\ UNCHANGED <<svarsEnv, svarsChan, svarsSched, fvars>>
    /\ outcome' = NoOutcome
    /\ UNCHANGED lost

\* ---- run_scheduled and _run_session ----
NewMain(run_once, market_open) ==
    /\ mpc' = "start"
    /\ margs' = [run_once |-> run_once, market_open |-> market_open,
                 day_info |-> << >>]
    /\ message_id' = 0
    /\ last_text' = << >>
    /\ text' = NoText
    /\ attempt' = 0 /\ delay' = 0
    /\ mwake' = 0
    /\ outcome' = NoOutcome
    /\ lost' = 0

NoMain ==
    /\ mpc' = "none"
    /\ margs' = NoArgs
    /\ message_id' = 0
    /\ last_text' = << >>
    /\ text' = NoText
    /\ attempt' = 0 /\ delay' = 0
    /\ mwake' = 0
    /\ outcome' = NoOutcome
    /\ lost' = 0

\* after the final update: next_start = _next_session_start(now), then
\* _sleep_until(next_start); a RuntimeError leaves run_scheduled
WaitForOpen ==
    IF _next_session_start(loop_now') = -1
    THEN spc' = "exited" /\ next_start' = next_start
    ELSE spc' = "wait_open" /\ next_start' = _next_session_start(loop_now')

\* loop top, within a session: _run_session(stop_at) starts the bot task
SchedEnterSession ==
    /\ spc = "loop"
    /\ _is_within_session(clk)
    /\ loop_now' = clk
    /\ off_session_message_sent' = FALSE
    /\ stop_at' = _session_bounds(clk)[2]
    /\ NewMain(FALSE, TRUE)
    /\ spc' = "session"
    /\ deliveries' = 0
    /\ UNCHANGED <<svarsEnv, file, nmsgs, pinned, gone, next_start, fvars>>

\* loop top, outside a session, final update not yet marked as sent
SchedFinalUpdate ==
    /\ spc = "loop"
    /\ ~_is_within_session(clk)
    /\ ~off_session_message_sent
    /\ loop_now' = clk
    /\ NewMain(TRUE, FALSE)
    /\ spc' = "final"
    /\ UNCHANGED <<svarsEnv, svarsChan, off_session_message_sent, stop_at,
                   next_start, fvars>>

\* loop top, outside a session, final update marked as sent
SchedSkipFinal ==
    /\ spc = "loop"
    /\ ~_is_within_session(clk)
    /\ off_session_message_sent
    /\ loop_now' = clk
    /\ WaitForOpen
    /\ UNCHANGED <<svarsEnv, svarsChan, svarsMain, margs, off_session_message_sent,
                   stop_at, fvars>>

\* main(run_once=True, market_open=False) returned
SchedFinalReturned ==
    /\ spc = "final"
    /\ mpc = "returned"
    /\ off_session_message_sent' = TRUE
    /\ loop_now' = loop_now
    /\ WaitForOpen
    /\ NoMain
    /\ UNCHANGED <<svarsEnv, svarsChan, stop_at, fvars>>

\* main(run_once=True, ...) raised an Exception: sleep, then loop again
SchedFinalRaised ==
    /\ spc = "final"
    /\ mpc = "raised"
    /\ spc' = "retry_sleep"
    /\ NoMain
    /\ UNCHANGED <<svarsEnv, svarsChan, off_session_message_sent, loop_now,
                   stop_at, next_start, fvars>>

\* SystemExit of main is not an Exception: it ends the process
SchedFinalExit ==
    /\ spc = "final"
    /\ mpc = "sysexit"
    /\ spc' = "exited"
    /\ UNCHANGED <<svarsEnv, svarsChan, svarsMain, margs, off_session_message_sent,
                   loop_now, stop_at, next_start, fvars>>

\* asyncio.sleep(_SLEEP_GRANULARITY_SEC) after a failed final update is over
SchedRetryWake ==
    /\ spc = "retry_sleep"
    /\ clk >= loop_now + Slots(_SLEEP_GRANULARITY_SEC)
    /\ spc' = "loop"
    /\ UNCHANGED <<svarsEnv, svarsChan, svarsMain, margs, off_session_message_sent,
                   loop_now, stop_at, next_start, fvars>>

\* _sleep_until(next_start) returns
SchedOpenReached ==
    /\ spc = "wait_open"
    /\ clk >= next_start
    /\ spc' = "loop"
    /\ UNCHANGED <<svarsEnv, svarsChan, svarsMain, margs, off_session_message_sent,
                   loop_now, stop_at, next_start, fvars>>

SessionTimeout_NoCancel ==
    /\ spc = "session"
    /\ clk >= stop_at
    /\ mpc \in CancelPoints
    /\ spc' = "loop"
    /\ UNCHANGED <<svarsEnv, svarsChan, svarsMain, margs, off_session_message_sent,
                   loop_now, stop_at, next_start, fvars>>

\* wait_for times out at stop_at: the bot task is cancelled where it awaits
SessionTimeout ==
    /\ spc = "session"
    /\ clk >= stop_at
    /\ mpc \in CancelPoints
    /\ NoMain
    /\ spc' = "loop"
    /\ UNCHANGED <<svarsEnv, svarsChan, off_session_message_sent, loop_now,
                   stop_at, next_start, fvars>>

\* the bot task ended by itself: its exception is re-raised, and a plain
\* return raises SystemExit; either way run_scheduled is left
SessionTaskEnded ==
    /\ spc = "session"
    /\ mpc \in {"returned", "raised", "sysexit"}
    /\ spc' = "exited"
    /\ UNCHANGED <<svarsEnv, svarsChan, svarsMain, margs, off_session_message_sent,
                   loop_now, stop_at, next_start, fvars>>

\* somebody deletes the tracked message from the channel.  The loop notices
\* a deletion at its next edit only, so the deletion is placed in the
\* interval sleep before that edit.
DeleteMessage ==
    /\ mpc = "interval_sleep"
    /\ message_id # 0
    /\ message_id \notin gone
    /\ gone' = gone \cup {message_id}
    /\ UNCHANGED <<file, nmsgs, pinned, deliveries>>
    /\ UNCHANGED <<svarsEnv, svarsMain, svarsSched, fvars>>

\* one slot of time passes; cache entries age by about one interval.  The
\* slot boundary falls between two calls of fetch_all; part 1 covers time
\* passing inside a call.
SchedTick ==
    /\ spc # "off"
    /\ clk < MaxClk
    /\ fpc = "idle"
    /\ clk' = clk + 1
    /\ \E d \in TimeSteps : cache' = Aged(cache, d)
    /\ UNCHANGED <<fpc, imap, spark_data, out, idx, ci, price, res, spark_reqs, spark_symbols,
                   attempts, asked, scraped, row, returned>>
    /\ UNCHANGED <<cfg_ok, svarsChan, svarsSched, svarsMain>>
    /\ UNCHANGED outcome
    /\ UNCHANGED lost

\* the steps of fetch_all inside main; the pause between two indices does
\* not occur with at most one index configured
FetchSteps ==
    \/ SparkNoTickers
    \/ SparkFailed
    \/ SparkMalformed
    \/ SparkOk
    \/ FetchIndexCached
    \/ FetchIndexMiss
    \/ CandSpark
    \/ CandNoSpark
    \/ LastPriceNone
    \/ LastPriceOk
    \/ PrevCloseNone
    \/ PrevCloseOk
    \/ ScrapeNone
    \/ ScrapeOk

MainNext ==
    \/ MainStart
    \/ MainGetMeOk
    \/ MainGetMeInvalidToken
    \/ MainGetMeError
    \/ MainFetch
    \/ MainFetchRaised
    \/ MainBuild
    \/ MainSendOk
    \/ MainSendTimedOut
    \/ MainSendRetry
    \/ MainSendError
    \/ MainPin
    \/ MainPinError
    \/ MainEditOk
    \/ MainEditRejected
    \/ MainEditError
    \/ MainWake

SchedNext ==
    \/ SchedEnterSession
    \/ SchedFinalUpdate
    \/ SchedSkipFinal
    \/ SchedFinalReturned
    \/ SchedFinalRaised
    \/ SchedFinalExit
    \/ SchedRetryWake
    \/ SchedOpenReached
    \/ SessionTimeout
    \/ SessionTaskEnded
    \/ DeleteMessage
    \/ SchedTick

\* run_scheduled started at one of the start slots
InitSched ==
    /\ imap \in SchedMappings
    /\ FetchInit
    /\ clk \in StartSlots
    /\ cfg_ok \in BOOLEAN
    /\ file = << >>
    /\ nmsgs = 0
    /\ pinned = 0
    /\ gone = {}
    /\ lost = 0
    /\ spc = "loop"
    /\ off_session_message_sent = FALSE
    /\ loop_now = 0
    /\ stop_at = 0
    /\ next_start = 0
    /\ mpc = "none"
    /\ margs = NoArgs
    /\ message_id = 0
    /\ last_text = << >>
    /\ text = NoText
    /\ attempt = 0 /\ delay = 0
    /\ mwake = 0
    /\ outcome = NoOutcome
    /\ deliveries = 0
    /\ CalOff
    /\ TryOff

NextSched == (FetchSteps \/ MainNext \/ SchedNext) /\ UNCHANGED pvars

SpecSched == InitSched /\ [][NextSched]_vars

\* ------------------------------------------------------------------------
\* The message text alone: build_message applied to a list of quotes, a
\* market_closed flag and a day_info
\* ------------------------------------------------------------------------
\* prices and previous closes of the quotes formatted, zero, negative and
\* fractional values among them
QuoteValues ==
    {R(0), R(100), R(102), R(98), R(-5), Rat(1, 2), Rat(5000, 51),
     Rat(3, 2)}

\* first quotes of the list, and the quotes that may follow them
FmtFirstQuotes ==
    {IndexQuote(MapOne[1][1], MapOne[1][2], p, c, d) :
        p \in QuoteValues, c \in QuoteValues, d \in PriceDates}
FmtNextQuotes ==
    {IndexQuote("TA-35", "TA35.TA", R(102), R(100), 0),
     IndexQuote("TA-35", "TA35.TA", R(98), R(100), 1)}
FmtQuoteLists ==
    {<< >>} \cup {<<q>> : q \in FmtFirstQuotes}
            \cup {<<q, r>> : q \in FmtFirstQuotes, r \in FmtNextQuotes}

\* the day_info argument: None, non-trading days with and without a reason,
\* shortened days with and without a reason, a regular trading day
FmtDayInfos ==
    {<< >>,
     <<TradingDayInfo(FALSE, FALSE, "Pesach", NoTime, NoTime)>>,
     <<TradingDayInfo(FALSE, TRUE, "Pesach", NoTime, NoTime)>>,
     <<TradingDayInfo(FALSE, FALSE, "", NoTime, NoTime)>>,
     <<TradingDayInfo(TRUE, TRUE, "Chol HaMoed Pesach", time(9, 25), time(14, 45))>>,
     <<TradingDayInfo(TRUE, TRUE, "", time(9, 25), time(0, 10))>>,
     <<TradingDayInfo(TRUE, FALSE, "", time(9, 25), time(17, 45))>>}

InitFmt ==
    /\ imap = MapOne
    /\ out \in FmtQuoteLists
    /\ \E b \in BOOLEAN, i \in FmtDayInfos :
         margs = [run_once |-> TRUE, market_open |-> b, day_info |-> i]
    /\ cache = EmptyFn /\ fpc = "idle" /\ spark_data = EmptyFn
    /\ idx = 1 /\ ci = 1 /\ price = NoPrice /\ res = << >>
    /\ spark_reqs = 0 /\ spark_symbols = {} /\ attempts = << >> /\ asked = << >>
    /\ scraped = << >> /\ row = << >> /\ returned = EmptyFn
    /\ clk = 0 /\ cfg_ok = TRUE
    /\ file = << >> /\ nmsgs = 0 /\ pinned = 0 /\ gone = {} /\ deliveries = 0
    /\ spc = "off" /\ off_session_message_sent = FALSE
    /\ loop_now = 0 /\ stop_at = 0 /\ next_start = 0
    /\ mpc = "none" /\ message_id = 0 /\ last_text = << >> /\ text = NoText
    /\ attempt = 0 /\ delay = 0 /\ mwake = 0 /\ outcome = NoOutcome /\ lost = 0
    /\ CalOff
    /\ TryOff

\* text = build_message(quotes, tz, market_closed = not market_open, day_info)
FormatMessage ==
    /\ text = NoText
    /\ text' = build_message(out, ~margs.market_open, margs.day_info, clk)
    /\ UNCHANGED <<fvars, svarsEnv, svarsChan, svarsSched>>
    /\ UNCHANGED <<mpc, message_id, last_text, attempt, mwake, delay, outcome, lost>>

NextFmt == FormatMessage /\ UNCHANGED pvars

SpecFmt == InitFmt /\ [][NextFmt]_vars

\* ------------------------------------------------------------------------
\* The per-symbol requests alone: one call of _try_get_last_price or of
\* _try_get_prev_close
\* ------------------------------------------------------------------------
max_retries == 2
TrySymbols == {"TA35.TA", "^TA35.TA"}

\* the settings of _try_get_last_price: the downloads ("1d","1m") and
\* ("5d","5m"), then fast_info; _try_get_prev_close has the one download
\* ("7d","1d")
FAST_INFO == 3

TryLog(ev, result) ==
    tlog' = Append(tlog, [ev |-> ev, setting |-> tsetting,
                          attempt |-> tattempt, result |-> result])

TryReturn(result) ==
    /\ tpc' = "returned"
    /\ tresult' = result
    /\ UNCHANGED <<tfn, tsymbol, tsetting, tattempt>>

\* `break` out of a download retry loop of _try_get_last_price: the next
\* setting, or fast_info after the last one
TryNextSetting ==
    /\ tsetting' = tsetting + 1
    /\ tattempt' = 0
    /\ tpc' = IF tsetting + 1 = FAST_INFO THEN "fast_info" ELSE "download"
    /\ UNCHANGED <<tfn, tsymbol, tresult>>

TryBackoffNext ==
    /\ tpc' = "backoff"
    /\ UNCHANGED <<tfn, tsymbol, tsetting, tattempt, tresult>>

TryStart ==
    /\ tpc = "idle"
    /\ \E f \in {"last_price", "prev_close"}, s \in TrySymbols :
          tfn' = f /\ tsymbol' = s
    /\ tsetting' = 1
    /\ tattempt' = 0
    /\ tlog' = << >>
    /\ tresult' = "none"
    /\ tpc' = "download"
    /\ UNCHANGED <<cvars, fvars, svars>>

\* yf.download returned closes: the value is returned
DownloadData ==
    /\ tpc = "download"
    /\ TryLog("download", "data")
    /\ TryReturn("value")
    /\ UNCHANGED <<cvars, fvars, svars>>

\* yf.download returned None, an empty frame or no close: _try_get_prev_close
\* returns None, _try_get_last_price breaks out of the retry loop
DownloadEmpty ==
    /\ tpc = "download"
    /\ TryLog("download", "empty")
    /\ IF tfn = "prev_close" THEN TryReturn("none") ELSE TryNextSetting
    /\ UNCHANGED <<cvars, fvars, svars>>

\* yf.download or the handling of its result raised
DownloadRaised ==
    /\ tpc = "download"
    /\ TryLog("download", "raised")
    /\ IF tattempt < max_retries - 1 THEN TryBackoffNext
       ELSE IF tfn = "prev_close" THEN TryReturn("none") ELSE TryNextSetting
    /\ UNCHANGED <<cvars, fvars, svars>>

\* time.sleep(delay) in the except branch, then the next attempt
TryBackoff ==
    /\ tpc = "backoff"
    /\ TryLog("sleep", "slept")
    /\ tattempt' = tattempt + 1
    /\ tpc' = IF tsetting = FAST_INFO THEN "fast_info" ELSE "download"
    /\ UNCHANGED <<tfn, tsymbol, tsetting, tresult>>
    /\ UNCHANGED <<cvars, fvars, svars>>

\* fast_info gave a last price
FastInfoData ==
    /\ tpc = "fast_info"
    /\ TryLog("fast_info", "data")
    /\ TryReturn("value")
    /\ UNCHANGED <<cvars, fvars, svars>>

\* fast_info gave no last price and nothing raised: the body of the for loop
\* ends and the loop goes on to its next attempt, without sleeping
FastInfoNone ==
    /\ tpc = "fast_info"
    /\ TryLog("fast_info", "empty")
    /\ IF tattempt < max_retries - 1
       THEN /\ tattempt' = tattempt + 1
            /\ UNCHANGED <<tpc, tfn, tsymbol, tsetting, tresult>>
       ELSE TryReturn("none")
    /\ UNCHANGED <<cvars, fvars, svars>>

\* yf.Ticker, fast_info or the reading of the price raised
FastInfoRaised ==
    /\ tpc = "fast_info"
    /\ TryLog("fast_info", "raised")
    /\ IF tattempt < max_retries - 1 THEN TryBackoffNext ELSE TryReturn("none")
    /\ UNCHANGED <<cvars, fvars, svars>>

InitTry ==
    /\ imap = MapEmpty
    /\ FetchInit
    /\ SchedOff
    /\ CalOff
    /\ TryOff

NextTry ==
    \/ TryStart
    \/ DownloadData
    \/ DownloadEmpty
    \/ DownloadRaised
    \/ TryBackoff
    \/ FastInfoData
    \/ FastInfoNone
    \/ FastInfoRaised

SpecTry == InitTry /\ [][NextTry]_vars

\* ------------------------------------------------------------------------
\* The calendar alone: get_trading_day_info applied to a date
\* ------------------------------------------------------------------------
\* the years the dates are drawn from: the two years of the tables, the year
\* before and the year after
FirstYear == 2024
LastYear == 2027
CalDates ==
    {date(y, m, d) : y \in FirstYear..LastYear, m \in 1..12, d \in 1..31}

InitCal ==
    /\ imap = MapEmpty
    /\ FetchInit
    /\ SchedOff
    /\ TryOff
    /\ moment_date \in {d \in CalDates : d.day <= days_in_month(d.year, d.month)}
    /\ trading_day_info = << >>
    /\ start_after = [date |-> date(2025, 1, 1), time |-> time(0, 0)]
    /\ session_start = << >>

GetTradingDayInfo ==
    /\ trading_day_info = << >>
    /\ trading_day_info' = <<get_trading_day_info(moment_date)>>
    /\ UNCHANGED <<moment_date, start_after, session_start, tvars, fvars, svars>>

NextCal == GetTradingDayInfo

SpecCal == InitCal /\ [][NextCal]_vars

\* ---- _next_session_start over the calendar's dates ----
\* tase_calendar.get_trading_hours is not part of the sources; over the
\* calendar's dates it is taken to return the start and stop time of
\* get_trading_day_info, or nothing on a non-trading day.
get_trading_hours_of(d) ==
    LET info == get_trading_day_info(d)
    IN  IF info.is_trading THEN <<info.start_time, info.stop_time>> ELSE << >>

\* d + timedelta(days=1)
next_day(d) ==
    IF d.day < days_in_month(d.year, d.month) THEN date(d.year, d.month, d.day + 1)
    ELSE IF d.month < 12 THEN date(d.year, d.month + 1, 1)
    ELSE date(d.year + 1, 1, 1)

\* d + timedelta(days=n)
RECURSIVE timedelta_days(_, _)
timedelta_days(d, n) == IF n = 0 THEN d ELSE timedelta_days(next_day(d), n - 1)

\* datetime.combine(day, t): a date and a time of day
combine(day, t) == [date |-> day, time |-> t]

minute_of(t) == t.h * 60 + t.m

\* mutant: a session that opens at `after` counts as the next one
later_than_OrEqual(a, b) ==
    \/ toordinal(a.date) > toordinal(b.date)
    \/ a.date = b.date /\ minute_of(a.time) >= minute_of(b.time)

\* candidate_start > after
later_than(a, b) ==
    \/ toordinal(a.date) > toordinal(b.date)
    \/ a.date = b.date /\ minute_of(a.time) > minute_of(b.time)

RuntimeError == [date |-> date(0, 0, 0), time |-> NoTime]

\* _session_bounds(candidate_moment)[0] for the day `offset` days after
\* `after`, << >> when that day has no session
candidate_start(after_, offset) ==
    LET candidate_day == timedelta_days(after_.date, offset)
        hours == get_trading_hours_of(candidate_day)
    IN  IF hours = << >> THEN << >> ELSE <<combine(candidate_day, hours[1])>>

\* _next_session_start(after) over dates and times of day
RECURSIVE next_session_start_from(_, _)
next_session_start_from(after_, offset) ==
    IF offset >= 8 THEN RuntimeError
    ELSE LET c == candidate_start(after_, offset)
         IN  IF c # << >> /\ later_than(c[1], after_) THEN c[1]
             ELSE next_session_start_from(after_, offset + 1)

\* the moments the search is started from: every day of 2025 and 2026, at
\* midnight, just before, at and just after the opening time, at noon, at
\* the stop time of a regular day and at the end of the day
AfterTimes ==
    {time(0, 0), time(9, 24), time(9, 25), time(9, 26), time(12, 0),
     time(17, 45), time(23, 59)}

AfterDates ==
    {d \in CalDates : d.year \in {2025, 2026} /\ d.day <= days_in_month(d.year, d.month)}

InitStart ==
    /\ imap = MapEmpty
    /\ FetchInit
    /\ SchedOff
    /\ TryOff
    /\ moment_date = date(2025, 1, 1)
    /\ trading_day_info = << >>
    /\ start_after \in {combine(d, t) : d \in AfterDates, t \in AfterTimes}
    /\ session_start = << >>

NextSessionStart ==
    /\ session_start = << >>
    /\ session_start' = <<next_session_start_from(start_after, 0)>>
    /\ UNCHANGED <<moment_date, trading_day_info, start_after, tvars, fvars, svars>>

NextStart == NextSessionStart

SpecStart == InitStart /\ [][NextStart]_vars

\* ------------------------------------------------------------------------
\* Properties of the quote-acquisition pipeline
\* ------------------------------------------------------------------------
Last(s) == s[Len(s)]
IsPrefix(s, t) == Len(s) <= Len(t) /\ \A i \in 1..Len(s) : s[i] = t[i]
NoDuplicates(s) == \A i, j \in 1..Len(s) : s[i] = s[j] => i = j
Indices(m) == [i \in 1..Len(m) |-> i]
NamesOf(qs) == [i \in 1..Len(qs) |-> qs[i].name]

\* fetch_index has returned for item Len(res), and has not been entered again
JustReturned == fpc \in {"sleep", "item", "done"} /\ res # << >>
\* the item fetch_index last returned for: its name, primary symbol, candidates
RetName == imap[Len(res)][1]
RetSymbol == imap[Len(res)][2]
RetCands == <<RetSymbol>> \o AltsOf(RetSymbol)
RetKey == RetName \o "_" \o RetSymbol
\* fetch_index is working on item idx, past the cache lookup
InCandidates == fpc \in {"cand", "last_price", "prev_close", "scrape"}

\* previous closes the scrape fallback can produce
ScrapePrevCloses ==
    {scrape_prev_close(p, c) : p \in ScrapePrices, c \in ScrapePcts}

\* C1: when fetch_all returns, its list holds, in the mapping's order, exactly
\* one quote for each name that some layer resolved and none for the others,
\* and every quote carries a price and a previous close.
C1_FetchAllResult ==
    fpc = "done" =>
        /\ Len(res) = Len(imap)
        /\ LET Resolved(i) == res[i] # "none"
               kept == SelectSeq(Indices(imap), Resolved)
           IN NamesOf(out) = [k \in 1..Len(kept) |-> imap[kept[k]][1]]
        /\ \A k \in 1..Len(out) :
              /\ out[k].price \in Prices \cup ScrapePrices
              /\ out[k].prev_close \in PrevCloses \cup ScrapePrevCloses

C3_FetchAllNeverRaises == fpc # "raised"

\* C4: on a cache miss the candidates are entered in the order primary, then
\* alternates in table order; a per-symbol request goes only to a candidate
\* that the batched lookup does not hold; the quote returned from a candidate
\* names the last candidate entered, every candidate before it having failed,
\* and no candidate after it was entered or asked.
C4_CandidateOrder ==
    /\ InCandidates =>
          /\ IsPrefix(attempts, <<CurSymbol>> \o AltsOf(CurSymbol))
          /\ Len(attempts) = (IF fpc = "cand" THEN ci - 1 ELSE ci)
          /\ IsPrefix(asked, attempts)
          /\ \A k \in 1..Len(asked) : asked[k] \notin DOMAIN spark_data
          /\ fpc \in {"last_price", "prev_close"} => attempts[ci] \notin DOMAIN spark_data
    /\ (JustReturned /\ Last(res) \in {"spark", "direct"}) =>
          /\ attempts # << >>
          /\ IsPrefix(attempts, RetCands)
          /\ Last(out).symbol = Last(attempts)
          /\ IsPrefix(asked, attempts)
          /\ Last(res) = "spark" => asked = SubSeq(attempts, 1, Len(attempts) - 1)
          /\ Last(res) = "direct" => asked = attempts

\* the primary and the first alternate failed, the second alternate answered
C4_Witness ==
    /\ JustReturned
    /\ Last(res) = "direct"
    /\ Len(attempts) = 3
    /\ Last(out).symbol = "TA35"

\* C5: the scrape fallback runs for a name exactly when the cache missed and
\* every candidate of the name failed, after all of them were entered, and at
\* most once per name in one fetch_all call.
C5_ScrapeLastResort ==
    /\ fpc = "scrape" =>
          /\ CurKey \notin DOMAIN cache
          /\ attempts = <<CurSymbol>> \o AltsOf(CurSymbol)
          /\ \A k \in 1..Len(scraped) : scraped[k] # CurName
    /\ NoDuplicates(scraped)
    /\ JustReturned =>
          /\ Last(res) \in {"scrape", "none"} <=>
                (scraped # << >> /\ Last(scraped) = RetName)
          /\ Last(res) \in {"scrape", "none"} => attempts = RetCands
          /\ Last(res) \in {"cache", "spark", "direct"} =>
                \A k \in 1..Len(scraped) : scraped[k] # RetName
          /\ Last(res) = "cache" => attempts = << >>
          /\ Last(res) \in {"spark", "direct"} => Last(out).symbol = Last(attempts)

\* all three candidates of TA-35 failed and the scrape answered
C5_Witness ==
    /\ JustReturned
    /\ Last(res) = "scrape"
    /\ Len(attempts) = 3
    /\ Last(out).name = "TA-35"

\* C6: the lookup of fetch_index answers from the cache exactly when the key
\* has an entry of age below the TTL; an older entry is deleted and the item
\* goes on to a fetch; a hit leaves the entry and its age as they were.
C6_CacheTtl ==
    [][(fpc = "item" /\ <<fpc, idx>>' # <<fpc, idx>>) =>
         IF CurKey \in DOMAIN cache /\ cache[CurKey].age < 300
         THEN /\ res' = Append(res, "cache")
              /\ out' = Append(out, cache[CurKey].quote)
              /\ cache' = cache
         ELSE /\ fpc' = "cand"
              /\ res' = res /\ out' = out
              /\ CurKey \notin DOMAIN cache'
              /\ \A k \in DOMAIN cache \ {CurKey} :
                    k \in DOMAIN cache' /\ cache'[k] = cache[k]]_vars

\* an entry of age 299 was served
C6_Witness ==
    /\ JustReturned
    /\ Last(res) = "cache"
    /\ RetKey \in DOMAIN cache
    /\ cache[RetKey].age = 299

\* C7: when fetch_index returns a quote from a candidate or from the scrape,
\* the cache holds that quote under the key of (name, primary symbol); when it
\* returns no quote the cache holds nothing under that key.
C7_WriteBeforeReturn ==
    JustReturned =>
        /\ Last(res) \in {"spark", "direct", "scrape"} =>
              /\ RetKey \in DOMAIN cache
              /\ cache[RetKey].quote = Last(out)
        /\ Last(res) = "none" => RetKey \notin DOMAIN cache

\* a quote resolved through an alternate symbol is cached under the primary
C7_Witness ==
    /\ JustReturned
    /\ Last(res) \in {"spark", "direct"}
    /\ RetSymbol = "TA35.TA"
    /\ Last(out).symbol = "^TA35.TA"
    /\ cache["TA-35_TA35.TA"].quote = Last(out)


\* ------------------------------------------------------------------------
\* Properties of the notifier
\* ------------------------------------------------------------------------
ClosedHeaders == {"closed_dated", "closed_undated"}

\* C8: in an off-session period the final update is marked as sent only
\* when exactly one message was sent or edited in that period (credentials
\* being configured).
C8_OneFinalUpdate ==
    (cfg_ok /\ off_session_message_sent) => deliveries = 1

\* C9: the text of the final off-session update (run_once, market closed, no
\* day_info) carries a market-closed header and one quote line per quote
\* fetch_all returned.
C9_FinalUpdateShowsQuotes ==
    [][(/\ mpc = "fetching" /\ fpc = "done" /\ mpc' # mpc
        /\ margs.run_once /\ ~margs.market_open
        /\ out # << >>)
       => (/\ text'.header \in ClosedHeaders
           /\ Len(text'.quote_lines) = Len(out))]_vars

\* C10: within a session, a send that timed out on its last retry, and an
\* edit or pin that raised any error, are followed by the interval sleep of
\* the update loop.
C10_FailedCycleKeepsLoop ==
    [][(/\ spc = "session" /\ mpc' # mpc
        /\ \/ /\ mpc = "send"
              /\ attempt = Len(SEND_RETRY_DELAYS) - 1
              /\ outcome' = [op |-> "send", result |-> "timed_out"]
           \/ /\ mpc \in {"pin", "edit"}
              /\ outcome'.op = mpc
              /\ outcome'.result # "ok")
       => mpc' = "interval_sleep"]_vars

\* C11: once an edit has failed because the tracked message is gone from the
\* channel, the loop does not go on editing that message: it has sent a new
\* one and tracks the new id.
C11_RecreatedAfterDeletion ==
    (lost # 0 /\ mpc = "edit") => message_id # lost

\* C12: an update sub-loop (a main with run_once = False) exists only while
\* run_scheduled is inside _run_session; the final update is the only main
\* running outside a session, and nothing of main runs while run_scheduled
\* sleeps until the next open time or before a retry.
C12_OneSubLoop ==
    /\ (mpc # "none" /\ ~margs.run_once) => spc \in {"session", "exited"}
    /\ spc = "final" => (mpc # "none" /\ margs.run_once)
    /\ spc \in {"wait_open", "retry_sleep", "loop"} => mpc = "none"

\* the final update runs after the sub-loop of a session was cancelled at
\* the close time
C12_Witness ==
    /\ spc = "final"
    /\ stop_at # 0
    /\ clk >= stop_at
    /\ mpc = "fetching"

\* C13: a moment is in session exactly when its day is a trading day and
\* open <= moment < close of that day; run_scheduled starts a session only
\* at such a moment and takes the off-session branch at any other, the close
\* time included.
InSessionByCalendar(m) ==
    /\ DayOf(m) \notin NonTradingDays
    /\ DayOf(m) * DayLen + OpenSlot <= m
    /\ m < DayOf(m) * DayLen + CloseSlot

C14_MessageIdReuse ==
    /\ [][(mpc = "get_me" /\ mpc' = "fetch")
            => message_id' = IF file # << >> /\ file[1].day = DayOf(clk)
                             THEN file[1].id ELSE 0]_vars
    /\ [][(mpc = "fetching" /\ mpc' \notin {"fetching", "raised"})
            => (mpc' = "send" <=> message_id = 0)]_vars
    /\ [][nmsgs' # nmsgs
            => /\ message_id = 0
               /\ nmsgs' = nmsgs + 1
               /\ message_id' = nmsgs'
               /\ file' = <<[id |-> message_id', day |-> DayOf(clk)]>>
               /\ mpc' = "pin"]_vars
    /\ [][(message_id # 0 /\ mpc' \notin {"none", "start"})
            => message_id' = message_id]_vars
    /\ [](message_id # 0 => (file # << >> /\ file[1].id = message_id))

\* on the second day the id stored on the first day was not taken over: a
\* second message has been sent and recorded with the second day's date
C14_Witness ==
    /\ mpc = "pin"
    /\ nmsgs = 2
    /\ message_id = 2
    /\ file = <<[id |-> 2, day |-> 1]>>

\* C15: a pin that fails with Forbidden, BadRequest or TimedOut leaves the
\* sent message tracked and persisted and creates no message; the cycle ends
\* as a successful one (return when run_once, else the interval sleep), and
\* a cycle that tracks an unpinned message edits it and does not send.
C15_PinFailureIgnored ==
    /\ [][(/\ mpc = "pin"
           /\ outcome'.op = "pin"
           /\ outcome'.result \in {"forbidden", "bad_request", "timed_out"})
          => /\ message_id # 0
             /\ message_id' = message_id
             /\ file' = <<[id |-> message_id, day |-> file[1].day]>>
             /\ file' = file
             /\ nmsgs' = nmsgs
             /\ last_text' = last_text
             /\ mpc' = IF margs.run_once THEN "returned" ELSE "interval_sleep"]_vars
    /\ [][(/\ mpc = "fetching" /\ mpc' \notin {"fetching", "raised"}
           /\ message_id # 0 /\ pinned # message_id)
          => (mpc' \in {"edit", "interval_sleep", "returned"} /\ nmsgs' = nmsgs)]_vars

\* the pin of the message just sent was refused; the loop sleeps until the
\* next cycle with the message tracked and persisted
C15_Witness ==
    /\ spc = "session"
    /\ mpc = "interval_sleep"
    /\ outcome = [op |-> "pin", result |-> "forbidden"]
    /\ message_id = nmsgs
    /\ message_id # 0
    /\ file[1].id = message_id

\* C16: an edit rejected as "message is not modified" changes nothing: the
\* tracked id, the file, the channel and last_text stay as they are, main
\* does not raise, and the cycle ends like any other (return when run_once,
\* else the interval sleep, from which the next cycle starts).
C16_NotModifiedNoOp ==
    /\ [][(mpc = "edit" /\ outcome' = [op |-> "edit", result |-> "not_modified"])
          => /\ message_id' = message_id
             /\ file' = file
             /\ nmsgs' = nmsgs
             /\ pinned' = pinned
             /\ last_text' = last_text
             /\ mpc' = IF margs.run_once THEN "returned" ELSE "interval_sleep"]_vars
    /\ [][(mpc = "interval_sleep" /\ mpc' \notin {"interval_sleep", "none"})
          => mpc' = "fetch"]_vars

\* the next cycle starts after an edit was rejected as not modified
C16_Witness ==
    /\ spc = "session"
    /\ mpc = "interval_sleep"
    /\ clk >= mwake
    /\ clk < stop_at
    /\ outcome = [op |-> "edit", result |-> "not_modified"]

\* C17: with a credential missing nothing is fetched or sent, and the
\* scheduler neither records a final update as delivered nor goes on to
\* wait for the next session.
C17_MissingConfigExits ==
    ~cfg_ok => /\ fpc = "idle"
               /\ nmsgs = 0
               /\ ~off_session_message_sent
               /\ spc # "wait_open"

\* C18: a batched request that fails gives an empty lookup and fetch_all
\* goes on: nothing is returned yet, the per-name resolution starts with the
\* first name, no name is resolved from the lookup, and when fetch_all
\* returns every name of the mapping has been through the resolution.
C18_BatchFailureContinues ==
    /\ [][(fpc = "spark" /\ fpc' \notin {"spark", "raised"} /\ spark_data' = EmptyFn)
          => (fpc' = AfterSpark /\ idx' = 1 /\ out' = << >> /\ res' = << >>)]_vars
    /\ [][(fpc \notin {"idle", "spark", "raised", "done"} /\ spark_data = EmptyFn)
          => \A i \in 1..Len(res') :
                 res'[i] \in {"cache", "direct", "scrape", "none"}]_vars
    /\ [](fpc = "done" => Len(res) = Len(imap))

\* after a batched request that gave nothing the first name was resolved by
\* a per-symbol request and the second name is next
C18_Witness ==
    /\ fpc = "item"
    /\ idx = 2
    /\ spark_reqs = 1
    /\ spark_data = EmptyFn
    /\ res = <<"direct">>


\* the quote fetch_index builds from a scraped row: price p, previous close
\* p / (1 + c/100)
ScrapedFrom(q, r) ==
    /\ q.price = r.price
    /\ q.prev_close = RDiv(r.price, RAdd(R(1), RDiv(r.change_pct, R(100))))
    /\ RIsZero(r.change_pct) => q.prev_close = r.price
    /\ q.price_date = 0

ScrapeReturned == JustReturned /\ Last(res) = "scrape"

\* C20: when every candidate symbol failed and the scrape yields price p and
\* percent change c for the name, fetch_index returns (and caches) a quote
\* with the requested name, the primary symbol, price p and previous close
\* p / (1 + c/100) (p itself when c = 0); its change_pct is c when p is not
\* zero, and 0 when p is zero, the previous close then being zero as well.
\* A row with p = 100 and c = 2 gives a previous close of 5000/51, about 98.04.
C20_ScrapeQuote ==
    /\ ScrapeReturned =>
          /\ attempts = RetCands
          /\ Len(row) = 1
          /\ Last(out).name = RetName
          /\ Last(out).symbol = RetSymbol
          /\ ScrapedFrom(Last(out), row[1])
          /\ change_pct(Last(out)) =
                IF RIsZero(row[1].price) THEN R(0) ELSE row[1].change_pct
          /\ RetKey \in DOMAIN cache /\ cache[RetKey].quote = Last(out)
    /\ scrape_prev_close(R(100), R(2)) = Rat(5000, 51)
    /\ RLess(Rat(9803, 100), scrape_prev_close(R(100), R(2)))
    /\ RLess(scrape_prev_close(R(100), R(2)), Rat(9805, 100))

\* the scrape answered 100 and +2% after all three candidates of TA-35 failed
C20_Witness ==
    /\ ScrapeReturned
    /\ Last(out).name = "TA-35"
    /\ row = <<[price |-> R(100), change_pct |-> R(2)]>>
    /\ Last(out).prev_close = Rat(5000, 51)
    /\ change_pct(Last(out)) = R(2)

\* C20 as stated: the change_pct of the quote is the scraped percent change,
\* whatever the scraped price
C20_ChangePctIsScraped ==
    ScrapeReturned =>
        /\ ScrapedFrom(Last(out), row[1])
        /\ change_pct(Last(out)) = row[1].change_pct


\* ------------------------------------------------------------------------
\* Properties of the message text
\* ------------------------------------------------------------------------
\* C19: for every quote with a previous close different from zero, change_pct
\* is (price / prev_close - 1) * 100, that is, change_pct * prev_close equals
\* (price - prev_close) * 100; when the previous close is zero, change_pct is
\* 0 and no division error occurs.  The percentage on the quote's line of
\* the message is that value.
C19_ChangePct ==
    \A k \in 1..Len(out) :
        LET q == out[k] IN
        /\ change_pct(q) # ZeroDivisionError
        /\ ~RIsZero(q.prev_close) =>
              RMul(change_pct(q), q.prev_close) =
                 RMul(RSub(q.price, q.prev_close), R(100))
        /\ RIsZero(q.prev_close) => change_pct(q) = R(0)
        /\ (text # NoText /\ text.quote_lines # << >>) =>
              /\ text.quote_lines[k].pct = _fmt_pct(change_pct(q))
              /\ text.quote_lines[k].emoji = "white" <=> q.price = q.prev_close
                                                       \/ RIsZero(q.prev_close)

\* a live message was built from a quote whose previous close is zero and
\* whose price is not
C19_Witness ==
    /\ text.header = "live"
    /\ Len(text.quote_lines) = 1
    /\ RIsZero(out[1].prev_close)
    /\ out[1].price = R(100)
    /\ text.quote_lines[1].pct = _fmt_pct(R(0))


\* a text has been built; the day_info the formatter works with
Built == text # NoText
FmtClosed == ~margs.market_open
FmtInfo == day_info_or_default(margs.day_info, FmtClosed)

\* C24: when day_info.is_trading is false and a reason is present, the text
\* carries the no-trading header with that reason and no quote line (nor the
\* note, the live stamp or the delay disclaimer), whatever the quotes and
\* whatever market_closed.
C24_NonTradingDay ==
    (Built /\ margs.day_info # << >>
           /\ ~margs.day_info[1].is_trading /\ margs.day_info[1].reason # "")
    => /\ text.header = "no_trading"
       /\ text.reason = margs.day_info[1].reason
       /\ text.quote_lines = << >>
       /\ text.note = << >>
       /\ text.stamp = 0 /\ text.date = 0
       /\ ~text.disclaimer

\* a holiday text built from two quotes while market_closed is false
C24_Witness ==
    /\ Built
    /\ Len(out) = 2
    /\ margs.market_open
    /\ margs.day_info = <<TradingDayInfo(FALSE, FALSE, "Pesach", NoTime, NoTime)>>
    /\ text.header = "no_trading"
    /\ text.reason = "Pesach"
    /\ text.quote_lines = << >>

\* C25: when market_closed is true on a trading day, the text carries the
\* market-closed header, dated by the first quote's price_date when there is
\* one and undated otherwise, never the live header, and one quote line per
\* quote in input order.
C25_MarketClosed ==
    (Built /\ FmtClosed /\ margs.day_info # << >> /\ margs.day_info[1].is_trading)
    => /\ text.header =
             IF out # << >> /\ out[1].price_date # 0
             THEN "closed_dated" ELSE "closed_undated"
       /\ text.header = "closed_dated" => text.date = out[1].price_date
       /\ text.stamp = 0
       /\ Len(text.quote_lines) = Len(out)
       /\ \A k \in 1..Len(out) :
             /\ text.quote_lines[k].name = out[k].name
             /\ text.quote_lines[k].price = _fmt_num(out[k].price)

\* a dated market-closed text with two quote lines
C25_Witness ==
    /\ Built
    /\ FmtClosed
    /\ margs.day_info # << >> /\ margs.day_info[1].is_trading
    /\ text.header = "closed_dated"
    /\ text.date = 1
    /\ Len(text.quote_lines) = 2
    /\ text.quote_lines[1].name = "TA-125"
    /\ text.quote_lines[2].name = "TA-35"

\* C26: the shortened-day note, showing stop_time minus 20 minutes, is in the
\* text exactly when the live header is emitted for a shortened trading day;
\* it is absent under the market-closed and the non-trading header.
C26_NoteOnlyWhenLive ==
    Built =>
       /\ text.note # << >> <=>
             (text.header = "live" /\ FmtInfo.is_trading /\ FmtInfo.is_short)
       /\ text.note # << >> =>
             text.note[1].until.h * 60 + text.note[1].until.m
                = FmtInfo.stop_time.h * 60 + FmtInfo.stop_time.m - 20

\* what build_message does: the note is in the text on every shortened
\* trading day, under the live and under the market-closed header alike
C26_NoteOnShortDay ==
    Built =>
       /\ text.note # << >> <=> (FmtInfo.is_trading /\ FmtInfo.is_short)
       /\ text.note # << >> =>
             /\ text.header \in {"live", "closed_dated", "closed_undated"}
             /\ text.note[1].until.h * 60 + text.note[1].until.m
                   = FmtInfo.stop_time.h * 60 + FmtInfo.stop_time.m - 20

\* the note "until 14:25" under a market-closed header
C26_Witness ==
    /\ Built
    /\ text.header = "closed_undated"
    /\ text.note = <<[until |-> time(14, 25), reason |-> "Chol HaMoed Pesach"]>>

\* the direction of a quote, from its price and previous close
Rising(q) ==
    \/ RLess(R(0), q.prev_close) /\ RLess(q.prev_close, q.price)
    \/ RLess(q.prev_close, R(0)) /\ RLess(q.price, q.prev_close)
Falling(q) ==
    \/ RLess(R(0), q.prev_close) /\ RLess(q.price, q.prev_close)
    \/ RLess(q.prev_close, R(0)) /\ RLess(q.prev_close, q.price)

\* C27: in each quote line the indicator is the up one exactly when
\* change_pct > 0, the down one exactly when change_pct < 0 and the flat one
\* exactly when change_pct = 0; the percentage carries a "+" exactly when
\* change_pct >= 0, and 1.23 is printed as +1.23%.
C27_IndicatorAndSign ==
    /\ (Built /\ text.quote_lines # << >>) =>
          \A k \in 1..Len(out) :
             LET q == out[k]
                 line == text.quote_lines[k] IN
             /\ line.emoji = "green" <=> Rising(q)
             /\ line.emoji = "red" <=> Falling(q)
             /\ line.emoji = "white" <=> (~Rising(q) /\ ~Falling(q))
             /\ line.emoji \in {"green", "red", "white"}
             /\ Rising(q) <=> RLess(R(0), change_pct(q))
             /\ Falling(q) <=> RLess(change_pct(q), R(0))
             /\ line.pct.sign = "+" <=> ~Falling(q)
             /\ line.pct.sign \in {"+", ""}
             /\ line.pct.num.neg <=> Falling(q)
             /\ line.pct.num = Fixed2(change_pct(q))
    /\ _fmt_pct(Rat(123, 100)) = [sign |-> "+", num |-> [neg |-> FALSE, cents |-> 123]]
    /\ _fmt_pct(Rat(-5, 4)) = [sign |-> "", num |-> [neg |-> TRUE, cents |-> 125]]

\* a flat first line printed with "+" and a falling second line without it
C27_Witness ==
    /\ Built
    /\ Len(text.quote_lines) = 2
    /\ text.quote_lines[1].emoji = "white"
    /\ text.quote_lines[1].pct = [sign |-> "+", num |-> [neg |-> FALSE, cents |-> 0]]
    /\ text.quote_lines[2].emoji = "red"
    /\ text.quote_lines[2].pct = [sign |-> "", num |-> [neg |-> TRUE, cents |-> 200]]


\* ------------------------------------------------------------------------
\* Properties of the calendar
\* ------------------------------------------------------------------------
Looked == trading_day_info # << >>
DayInfo == trading_day_info[1]
Holidays == _HOLIDAYS_2025 @@ _HOLIDAYS_2026
ShortDays == _SHORT_DAYS_2025 @@ _SHORT_DAYS_2026
IsHoliday(d) == d \in DOMAIN Holidays
IsShortDay(d) == d \in DOMAIN ShortDays
\* the week from Sunday to Thursday applies before 2026-01-05, the week from
\* Monday to Friday from that day on
BeforeCutover(d) == toordinal(d) < toordinal(date(2026, 1, 5))
ActiveWeek(d) == IF BeforeCutover(d) THEN {6, 0, 1, 2, 3} ELSE {0, 1, 2, 3, 4}
TablesInTheirYears ==
    /\ \A d \in DOMAIN _HOLIDAYS_2025 \cup DOMAIN _SHORT_DAYS_2025 : d.year = 2025
    /\ \A d \in DOMAIN _HOLIDAYS_2026 \cup DOMAIN _SHORT_DAYS_2026 : d.year = 2026

\* C21: for every date of a holiday table, whatever its weekday, the result
\* is a non-trading day with the holiday's name as reason and without open
\* or close time; neither the weekend rule nor the shortened-day table is
\* consulted before.
C21_Holiday ==
    /\ TablesInTheirYears
    /\ (Looked /\ IsHoliday(moment_date)) =>
          DayInfo = [is_trading |-> FALSE, is_short |-> FALSE,
                     reason |-> Holidays[moment_date],
                     start_time |-> NoTime, stop_time |-> NoTime]

\* Pesach 2025, a Sunday of the Sunday-to-Thursday week
C21_Witness ==
    /\ Looked
    /\ moment_date = date(2025, 4, 13)
    /\ weekday(moment_date) = 6
    /\ ~DayInfo.is_trading
    /\ DayInfo.reason = "Pesach"

\* C22: for a date that is not a holiday, the result is a trading day exactly
\* when the weekday belongs to the week in force on that date, Sunday to
\* Thursday before 2026-01-05 and Monday to Friday from then on; on any
\* other weekday it is a non-trading day with the weekend reason.
C22_TradingWeek ==
    (Looked /\ ~IsHoliday(moment_date)) =>
       /\ DayInfo.is_trading <=> weekday(moment_date) \in ActiveWeek(moment_date)
       /\ ~DayInfo.is_trading =>
             DayInfo = [is_trading |-> FALSE, is_short |-> FALSE,
                        reason |-> WEEKEND_REASON,
                        start_time |-> NoTime, stop_time |-> NoTime]

\* Friday 2026-01-02, the last Friday of the old week, is a weekend day
C22_Witness ==
    /\ Looked
    /\ moment_date = date(2026, 1, 2)
    /\ weekday(moment_date) = 4
    /\ ~DayInfo.is_trading
    /\ DayInfo.reason = WEEKEND_REASON

\* C23: for every date of a shortened-day table the result is a shortened
\* trading day from 09:25 to 14:45 with the table's reason.
C23_ShortDay ==
    (Looked /\ IsShortDay(moment_date)) =>
        DayInfo = [is_trading |-> TRUE, is_short |-> TRUE,
                   reason |-> ShortDays[moment_date],
                   start_time |-> time(9, 25), stop_time |-> time(14, 45)]

\* Chol HaMoed Sukkot 2025 on a Sunday
C23_Witness ==
    /\ Looked
    /\ moment_date = date(2025, 10, 12)
    /\ weekday(moment_date) = 6
    /\ DayInfo.is_short
    /\ DayInfo.reason = "Chol HaMoed Sukkot"
    /\ DayInfo.stop_time = time(14, 45)

\* C30: a trading day that is neither a holiday nor a shortened day is a
\* regular one: open at 09:25, close at 15:50 on a Sunday before
\* 2026-01-05, at 13:50 on a Friday from 2026-01-05 on, at 17:45 on every
\* other trading weekday.
C30_RegularDay ==
    (/\ Looked
     /\ ~IsHoliday(moment_date) /\ ~IsShortDay(moment_date)
     /\ weekday(moment_date) \in ActiveWeek(moment_date))
    => DayInfo = [is_trading |-> TRUE, is_short |-> FALSE, reason |-> "",
                  start_time |-> time(9, 25),
                  stop_time |->
                     IF BeforeCutover(moment_date) /\ weekday(moment_date) = 6
                     THEN time(15, 50)
                     ELSE IF ~BeforeCutover(moment_date) /\ weekday(moment_date) = 4
                     THEN time(13, 50)
                     ELSE time(17, 45)]

\* Friday 2026-01-09, the first Friday of the new week, closes at 13:50
C30_Witness ==
    /\ Looked
    /\ moment_date = date(2026, 1, 9)
    /\ weekday(moment_date) = 4
    /\ DayInfo.is_trading /\ ~DayInfo.is_short
    /\ DayInfo.stop_time = time(13, 50)


\* ------------------------------------------------------------------------
\* Properties of the per-symbol requests
\* ------------------------------------------------------------------------
IsRequest(e) == e.ev \in {"download", "fast_info"}
RequestsOf(ev, setting) ==
    {i \in 1..Len(tlog) : tlog[i].ev = ev /\ tlog[i].setting = setting}

\* at most 2 downloads per setting and at most 2 fast_info requests; one
\* setting for _try_get_prev_close and no fast_info
TryBounded ==
    /\ \A s \in 1..FAST_INFO :
          /\ Cardinality(RequestsOf("download", s)) <= 2
          /\ Cardinality(RequestsOf("fast_info", s)) <= 2
    /\ RequestsOf("download", FAST_INFO) = {}
    /\ \A s \in 1..(FAST_INFO - 1) : RequestsOf("fast_info", s) = {}
    /\ tfn = "prev_close" => \A i \in 1..Len(tlog) : tlog[i].setting = 1
    /\ Len(tlog) <= 9

\* a backoff sleep comes right after a request that raised and right before
\* the next attempt of the same setting, never at the end of the call
SleepBetweenAttempts ==
    \A i \in 1..Len(tlog) :
        tlog[i].ev = "sleep" =>
            /\ i > 1 /\ IsRequest(tlog[i - 1]) /\ tlog[i - 1].result = "raised"
            /\ tpc = "returned" => i < Len(tlog)
            /\ i < Len(tlog) =>
                  /\ IsRequest(tlog[i + 1])
                  /\ tlog[i + 1].setting = tlog[i].setting
                  /\ tlog[i + 1].attempt = tlog[i].attempt + 1

\* the call returns None after its last request failed, a value after data
ReportsNoData ==
    tpc = "returned" =>
        /\ tlog # << >> /\ IsRequest(Last(tlog))
        /\ tresult = "value" <=> Last(tlog).result = "data"
        /\ tresult = "none" <=> Last(tlog).result \in {"raised", "empty"}

\* C28: a per-symbol fetch ends after a bounded number of requests and then
\* reports no data: at most 2 downloads in _try_get_prev_close, at most 2
\* per setting plus at most 2 fast_info requests in _try_get_last_price; a
\* request is repeated only after it raised, never after an empty result;
\* a backoff sleep happens only between two attempts.
C28_BoundedRetries ==
    /\ TryBounded
    /\ SleepBetweenAttempts
    /\ ReportsNoData
    /\ \A i \in 2..Len(tlog) :
          (IsRequest(tlog[i]) /\ tlog[i].attempt > 0) =>
              /\ tlog[i - 1].ev = "sleep"
              /\ tlog[i - 2].result = "raised"

\* what the code does: the same, except that a fast_info answer without a
\* price is asked for a second time at once
C28_RetryAfterEmptyFastInfo ==
    /\ TryBounded
    /\ SleepBetweenAttempts
    /\ ReportsNoData
    /\ \A i \in 2..Len(tlog) :
          (IsRequest(tlog[i]) /\ tlog[i].attempt > 0) =>
              \/ tlog[i - 1].ev = "sleep" /\ tlog[i - 2].result = "raised"
              \/ /\ tlog[i].ev = "fast_info"
                 /\ tlog[i - 1].ev = "fast_info"
                 /\ tlog[i - 1].result = "empty"

\* both downloads came back empty, so did fast_info, twice in a row
C28_Witness ==
    /\ tpc = "returned"
    /\ tfn = "last_price"
    /\ tresult = "none"
    /\ Len(tlog) = 4
    /\ tlog[3].ev = "fast_info" /\ tlog[3].result = "empty"
    /\ tlog[4].ev = "fast_info" /\ tlog[4].attempt = 1


\* ------------------------------------------------------------------------
\* Properties of the batched request
\* ------------------------------------------------------------------------
\* every primary symbol of the mapping and every alternate configured for one
PrimariesAndAlternates ==
    {imap[i][2] : i \in 1..Len(imap)} \cup
    {a \in UNION {SeqRange(ALT_SYMBOLS[p]) : p \in DOMAIN ALT_SYMBOLS} :
        \E i \in 1..Len(imap) :
            /\ imap[i][2] \in DOMAIN ALT_SYMBOLS
            /\ a \in SeqRange(ALT_SYMBOLS[imap[i][2]])}

SendTimedOut == [op |-> "send", result |-> "timed_out"]

\* the send attempt under way is the last one the list of delays allows
LastAttempt == attempt = 2

\* main has given up the first send of the run after the last timeout
GaveUpSending == mpc = "returned" /\ outcome = SendTimedOut

\* C31: the first send of a run is attempted at most 3 times; a further
\* attempt starts only from the wait that follows a timeout, and after a
\* delay of 2 s before the second attempt and 4 s before the third; once a
\* send has succeeded no further send is attempted in the run; a timeout of
\* the third attempt makes main return, with no id tracked, no id for the day
\* in the file, and the file and the pin left as the run found them.
C31_SendRetries ==
    /\ [](/\ mpc \in {"send", "send_wait"} => (attempt < 3 /\ message_id = 0)
          /\ GaveUpSending => (LastAttempt /\ message_id = 0 /\ _read_message_id = 0))
    /\ [][/\ (mpc' = "send" /\ attempt' > 0 /\ <<mpc, attempt>> # <<mpc', attempt'>>)
             => (/\ mpc = "send_wait"
                 /\ outcome = SendTimedOut
                 /\ attempt' = attempt + 1
                 /\ delay = IF attempt = 0 THEN 2 ELSE 4)
          /\ (mpc = "send" /\ outcome' = [op |-> "send", result |-> "ok"] /\ mpc' # mpc)
             => (mpc' = "pin" /\ message_id' # 0)
          /\ (mpc = "send" /\ LastAttempt /\ outcome' = SendTimedOut /\ mpc' # mpc)
             => (/\ mpc' = "returned"
                 /\ message_id' = 0
                 /\ UNCHANGED <<file, pinned, nmsgs>>)]_vars

\* a run that gave up after three timeouts, in a channel that still holds
\* the message of an earlier day
C31_Witness ==
    /\ GaveUpSending
    /\ LastAttempt
    /\ file # << >>
    /\ pinned # 0


\* ---- the next session start ----
Searched == session_start # << >>
SessionStart == session_start[1]

ValidDates == {d \in CalDates : d.day <= days_in_month(d.year, d.month)}

\* minutes from the first day of the calendar's range to a date and time
MinutesTo(x) ==
    (toordinal(x.date) - toordinal(date(FirstYear, 1, 1))) * 1440 + x.time.h * 60 + x.time.m

\* the opening moments of all trading sessions of the calendar's range
SessionOpens ==
    {MinutesTo([date |-> d, time |-> get_trading_day_info(d).start_time]) :
        d \in {e \in ValidDates : get_trading_day_info(e).is_trading}}

DaysSearched == toordinal(SessionStart.date) - toordinal(start_after.date)

\* C32: for every moment of 2025 and 2026 _next_session_start(after) finds a
\* session within today and the 7 days that follow, never raising
\* RuntimeError; what it returns is the opening moment of a trading session,
\* strictly later than `after`, and no trading session opens between `after`
\* and it.
C32_NextSessionStart ==
    Searched =>
        /\ SessionStart # RuntimeError
        /\ DaysSearched \in 0..7
        /\ MinutesTo(SessionStart) \in SessionOpens
        /\ MinutesTo(SessionStart) > MinutesTo(start_after)
        /\ \A s \in SessionOpens :
              s > MinutesTo(start_after) => MinutesTo(SessionStart) <= s

\* the search started after the opening of the last session before the
\* longest closure of the two years, which it has to cross
C32_Witness ==
    /\ Searched
    /\ SessionStart # RuntimeError
    /\ DaysSearched = 5


\* ---- the shape of a TradingDayInfo ----
Present(t) == t # NoTime
Earlier(t1, t2) == t1.h < t2.h \/ (t1.h = t2.h /\ t1.m < t2.m)

\* C33: get_trading_day_info returns a value for every date, inside and
\* outside 2025 and 2026; a trading day carries a start and a stop time, the
\* start strictly before the stop; a non-trading day carries a reason and no
\* times; a short day is a trading day.
C33_WellFormed ==
    Looked =>
        /\ DayInfo.is_trading \in BOOLEAN
        /\ DayInfo.is_trading =>
              /\ Present(DayInfo.start_time)
              /\ Present(DayInfo.stop_time)
              /\ Earlier(DayInfo.start_time, DayInfo.stop_time)
        /\ ~DayInfo.is_trading =>
              /\ DayInfo.reason # ""
              /\ ~Present(DayInfo.start_time)
              /\ ~Present(DayInfo.stop_time)
        /\ DayInfo.is_short => DayInfo.is_trading

\* a Saturday of 2027, a year for which the module has no tables
C33_Witness ==
    /\ Looked
    /\ moment_date.year \notin {2025, 2026}
    /\ weekday(moment_date) = 5
    /\ ~DayInfo.is_trading
    /\ DayInfo.reason = WEEKEND_REASON


\* ---- one cache entry per (name, symbol) pair ----
\* fetch_index has just answered the item it was called for from the cache
ServedFromCache == res # << >> /\ res[Len(res)] = "cache" /\ out # << >>

\* C34: a quote that fetch_index returns from the cache for the pair
\* (name, symbol) was cached for that pair: it carries the pair's name. (Two
\* pairs with the same name and the same key have the same symbol, so the
\* name tells the pairs apart.)
C34_OneEntryPerPair ==
    ServedFromCache => out[Len(out)].name = RetName


\* ---- both values of a quote from one candidate ----
\* fetch_index holds a price obtained by a per-symbol request
HoldsPrice == price # NoPrice

\* C35: the price fetch_index holds belongs to the candidate it is working
\* on, and it holds none when it enters a candidate or turns to the scrape
\* fallback; a quote built from per-symbol requests names the candidate that
\* was asked for both the price and the previous close; a quote built from
\* the batched lookup takes both values from the data point of the symbol it
\* names; a quote built from the scrape takes both values from the scraped
\* row and names the primary symbol.
C35_OneCandidatePerQuote ==
    /\ [](/\ HoldsPrice => (fpc = "prev_close" /\ price.s = CurCands[ci])
          /\ fpc = "prev_close" => HoldsPrice)
    /\ [][/\ (fpc = "prev_close" /\ res' = Append(res, "direct"))
             => (/\ Last(out').symbol = price.s
                 /\ Last(out').price = price.p
                 /\ Last(attempts) = price.s
                 /\ Last(asked') = price.s)
          /\ (fpc = "cand" /\ res' = Append(res, "spark"))
             => (/\ Last(out').symbol \in DOMAIN spark_data
                 /\ Last(out').symbol = CurCands[ci]
                 /\ Last(out').price = spark_data[Last(out').symbol].price
                 /\ Last(out').prev_close = spark_data[Last(out').symbol].prev_close)
          /\ (fpc = "scrape" /\ res' = Append(res, "scrape"))
             => (/\ Last(out').symbol = CurSymbol
                 /\ Last(out').price = row'[1].price
                 /\ Last(out').prev_close =
                       scrape_prev_close(row'[1].price, row'[1].change_pct))
          /\ (fpc = "prev_close" /\ fpc' # fpc /\ res' = res)
             => ~HoldsPrice']_vars

\* the primary failed after a per-symbol request; the quote then came from
\* the alternate, whose own requests supplied both values
C35_Witness ==
    /\ JustReturned
    /\ Last(res) = "direct"
    /\ Len(asked) = 2
    /\ Last(out).symbol = Last(asked)
    /\ Last(out).symbol # RetSymbol


\* ---- edits only when the text has changed ----
\* this run has had a send or an edit accepted
HasLastText == last_text # << >>

\* main has built the text of a cycle and chosen what to do with it
TextBuilt == mpc = "fetching" /\ mpc' \notin {"fetching", "raised"}

SentOrEdited ==
    outcome' \in {[op |-> "send", result |-> "ok"], [op |-> "edit", result |-> "ok"]}

\* C36: last_text changes only when a send or an edit succeeds, to the text
\* that call carried (a new run starts with none). In a run that has such a
\* text, a cycle goes to an edit exactly when the text it built differs from
\* it, and an edit is never issued with an identical text; when the text is
\* identical the cycle ends at once: no messaging call, the channel, the
\* file, the tracked id and last_text as they were.
C36_EditOnlyOnChange ==
    /\ [](mpc = "edit" => last_text # <<text>>)
    /\ [][last_text' # last_text
            => \/ last_text' = << >>
               \/ /\ mpc \in {"send", "edit"}
                  /\ SentOrEdited
                  /\ last_text' = <<text>>]_vars
    /\ [][(TextBuilt /\ HasLastText)
            => IF text' # last_text[1]
               THEN mpc' = "edit"
               ELSE /\ mpc' = IF margs.run_once THEN "returned" ELSE "interval_sleep"
                    /\ outcome' = NoOutcome
                    /\ UNCHANGED <<message_id, last_text, file, nmsgs, pinned,
                                   deliveries>>]_vars

\* a cycle of the update loop that built the text it had already sent and
\* went to sleep without a call
C36_Witness ==
    /\ spc = "session"
    /\ mpc = "interval_sleep"
    /\ outcome = NoOutcome
    /\ message_id # 0
    /\ last_text = <<text>>

====
